---- MODULE Spec2Model ----
(***************************************************************************)
(* pixi-expo: the environment adapter and input-normalisation layer.       *)
(*                                                                         *)
(*   - touchEventBridge (createPointerEvent, convertTouchToPointerEvents,  *)
(*     the module-level Map touchPositions),                               *)
(*   - ExpoCanvasElement (width/height, getBoundingClientRect),            *)
(*   - ExpoAdapter (activeCanvas/activeGL, setActiveGLContext,             *)
(*     clearActiveContext, createCanvas),                                  *)
(*   - PixiView (handleLayout, handleTouch*, forwardPointerEvent,         *)
(*     handleContextCreate, the postrender hook and the unmount cleanup    *)
(*     effect),                                                            *)
(*   - the listener registries of ExpoCanvasElement and of the window      *)
(*     polyfill (add/removeEventListener, dispatchEvent).                  *)
(*                                                                         *)
(* Object identity is modelled by position in a heap sequence: `new        *)
(* ExpoCanvasElement` appends to canvases and the new index is the         *)
(* reference; 0 is the null reference.                                     *)
(***************************************************************************)
EXTENDS Integers, Sequences, FiniteSets, TLC

\* ------------------------------------------------------------------ bounds
MaxId == 2        \* host touch identifiers are 1..MaxId
MaxX == 1         \* host logical touch x coordinates are 0..MaxX
MaxY == 1         \* host logical touch y coordinates are 0..MaxY
MaxRatio == 2     \* PixelRatio.get() and the resolution prop are at most this
MaxW == 1         \* logical layout widths and assigned canvas widths are 0..MaxW
MaxH == 1         \* logical layout heights and assigned canvas heights are 0..MaxH
MaxGL == 2        \* native GL contexts the host creates
MaxCanvas == 2    \* ExpoCanvasElement objects allocated
MaxListener == 2  \* listener functions are 1..MaxListener
MaxTypes == 2     \* listeners are registered for the first MaxTypes event types
MaxElement == 2   \* elements made by document.createElement

Ids == 1..MaxId
XCoords == 0..MaxX
YCoords == 0..MaxY
Widths == 0..MaxW
Heights == 0..MaxH
Undefined == 0 - 1   \* an omitted optional numeric argument
Listeners == 1..MaxListener
NoListener == 0      \* an omitted listener argument

\* the event types forwardPointerEvent dispatches
PointerTypes == <<"pointerdown", "pointermove", "pointerup", "pointercancel">>

ListenerTypes == {PointerTypes[i] : i \in 1..MaxTypes}

VARIABLES
    \* ExpoAdapter.ts module state
    activeCanvas,       \* reference to the active ExpoCanvasElement, 0 = null
    activeGL,           \* reference to the active GL context, 0 = null
    \* heap
    canvases,           \* ExpoCanvasElement objects, index = identity
    glSurface,          \* native GL contexts, index = identity
    apps,               \* Application objects, index = identity
    \* touchEventBridge module state
    touchPositions,     \* Map<identifier, {x, y}>
    \* polyfills.ts module state
    globalListeners,    \* Map<type, Set<listener>> of the first global polyfill
    windowListeners,    \* Map<type, Set<listener>>
    elements,           \* objects made by createMockElement, index = identity
    \* PixiView instance: props, refs
    pixelRatio,         \* PixelRatio.get() of the device
    resolution,         \* the resolution prop, 0 = not given
    interactiveEvents,  \* the interactiveEvents prop
    mounted,            \* FALSE once the cleanup effect has run
    glRef, canvasRef, appRef, layoutRef,
    initPending,        \* app.init() promises not yet resolved
    peer,               \* a second PixiView instance of the same process
    \* host gesture system
    touches,            \* contacts currently on the view, in arrival order
    responder,          \* the view is the current responder
    \* observation of the last step
    built,              \* the events the last step's gesture callback built
    lastRet,            \* the canvas ExpoAdapter.createCanvas returned, 0 = none
    calls,              \* the listener invocations the last step made, in order
    outcome,            \* what the last step's call returned or did
    \* history
    lastPos,            \* per id: coordinates of its latest start/move event
    gesturePrimary,     \* the first contact of the current or latest gesture
    retired             \* adapters that a later bind replaced

vars == <<activeCanvas, activeGL, canvases, glSurface, touchPositions,
          pixelRatio, resolution, interactiveEvents, mounted,
          glRef, canvasRef, appRef, layoutRef, initPending,
          touches, responder, built, lastRet,
          lastPos, gesturePrimary, retired,
          apps, globalListeners, windowListeners, calls, outcome, peer,
          elements>>

regVars == <<activeCanvas, activeGL, canvases, glSurface>>
viewVars == <<mounted, glRef, canvasRef, appRef, layoutRef, initPending>>
propVars == <<pixelRatio, resolution>>
hostVars == <<touches, responder>>
histVars == <<lastPos, gesturePrimary>>
lsnVars == <<globalListeners, windowListeners, peer, elements>>

\* --------------------------------------------------------------- helpers
EmptyMap == [i \in {} |-> <<>>]

MapSet(m, k, v) == [i \in (DOMAIN m) \cup {k} |-> IF i = k THEN v ELSE m[i]]

MapDelete(m, k) == [i \in (DOMAIN m) \ {k} |-> m[i]]

RECURSIVE SeqIds(_)
SeqIds(ts) == IF ts = <<>> THEN <<>>
              ELSE <<Head(ts).identifier>> \o SeqIds(Tail(ts))

IdSet(ts) == {ts[i].identifier : i \in DOMAIN ts}

\* ------------------------------------------------ ExpoCanvasElement.ts
\* MockCanvasStyle: width/height default to '100%'; PixiView writes `${n}px`.
DefaultStyleSize == <<"pct", 100>>

Px(n) == <<"px", n>>

\* constructor(width = 1, height = 1); _gl starts null
ExpoCanvasElement(w, h) ==
    [width |-> w, height |-> h, gl |-> 0,
     styleWidth |-> DefaultStyleSize, styleHeight |-> DefaultStyleSize,
     listeners |-> EmptyMap]

\* setGLContext(gl)
setGLContext(c, gl) == [c EXCEPT !.gl = gl]

\* set width(value) / set height(value)
setWidth(c, value) == [c EXCEPT !.width = value]

setHeight(c, value) == [c EXCEPT !.height = value]

\* a variant that encodes the pixels it has read
toDataURLEncoded(c) ==
    IF c.gl = 0
    THEN [value |-> "", warned |-> TRUE, readPixels |-> FALSE]
    ELSE [value |-> "data:image/png", warned |-> FALSE, readPixels |-> TRUE]

\* toDataURL(): '' with a warning; with a GL context the pixels are read
\* first and dropped
toDataURL(c) ==
    IF c.gl = 0
    THEN [value |-> "", warned |-> TRUE, readPixels |-> FALSE]
    ELSE [value |-> "", warned |-> TRUE, readPixels |-> TRUE]

\* toBlob(callback): warns and calls callback(null); `callbacks` lists the
\* arguments of the calls made to the callback, 0 = null
toBlob(c) == [callbacks |-> <<0>>, warned |-> TRUE]

\* transferControlToOffscreen(): always throws
transferControlToOffscreen(c) ==
    [threw |-> TRUE,
     error |-> "ExpoCanvasElement: transferControlToOffscreen is not supported"]

\* a variant that reports the logical (style) size when one is set
rectFromStyle(c) ==
    LET w == IF c.styleWidth[1] = "px" THEN c.styleWidth[2] ELSE c.width
        h == IF c.styleHeight[1] = "px" THEN c.styleHeight[2] ELSE c.height
    IN [x |-> 0, y |-> 0, width |-> w, height |-> h,
        top |-> 0, right |-> w, bottom |-> h, left |-> 0]

\* getBoundingClientRect(): the rect is built from _width/_height
getBoundingClientRect(c) ==
    [x |-> 0, y |-> 0, width |-> c.width, height |-> c.height,
     top |-> 0, right |-> c.width, bottom |-> c.height, left |-> 0]

\* getContext(type): the value returned, whether a warning was logged, whether
\* it threw, and the adapter the call leaves behind. 0 is null.
ContextIds == {"2d", "bitmaprenderer", "webgl", "experimental-webgl",
               "webgl2", "experimental-webgl2"}

\* a variant that refuses the WebGL2 kinds
getContextNoWebGL2(c, type) ==
    IF type \in {"webgl", "experimental-webgl"}
    THEN [value |-> c.gl, warned |-> (c.gl = 0), threw |-> FALSE, canvas |-> c]
    ELSE IF type = "2d"
    THEN [value |-> 0, warned |-> TRUE, threw |-> FALSE, canvas |-> c]
    ELSE IF type \in {"webgl2", "experimental-webgl2"}
    THEN [value |-> 0, warned |-> TRUE, threw |-> FALSE, canvas |-> c]
    ELSE [value |-> 0, warned |-> FALSE, threw |-> FALSE, canvas |-> c]

\* ExpoCanvasElement.getContext(type): the value returned, whether a warning
\* was logged, whether the call threw, and the element after the call
getContext(c, type) ==
    IF type \in {"webgl", "experimental-webgl"}
    THEN [value |-> c.gl, warned |-> (c.gl = 0), threw |-> FALSE, canvas |-> c]
    ELSE IF type = "2d"
    THEN [value |-> 0, warned |-> TRUE, threw |-> FALSE, canvas |-> c]
    ELSE IF type \in {"webgl2", "experimental-webgl2"}
    THEN [value |-> c.gl, warned |-> TRUE, threw |-> FALSE, canvas |-> c]
    ELSE [value |-> 0, warned |-> FALSE, threw |-> FALSE, canvas |-> c]

\* --------------------------------------------------- listener registries
\* A registry is a Map from type to a Set of listeners; a Set iterates in
\* insertion order, so it is a sequence without repetitions.
SeqRange(q) == {q[i] : i \in DOMAIN q}

listenersOf(reg, type) == IF type \in DOMAIN reg THEN reg[type] ELSE <<>>

\* ExpoCanvasElement.addEventListener(type, listener)
addEventListener(reg, type, l) ==
    LET ls == listenersOf(reg, type)
    IN MapSet(reg, type, IF l \in SeqRange(ls) THEN ls ELSE Append(ls, l))

\* ExpoCanvasElement.removeEventListener(type, listener?)
removeEventListener(reg, type, l) ==
    IF l = NoListener THEN MapDelete(reg, type)
    ELSE IF type \in DOMAIN reg
    THEN MapSet(reg, type, SelectSeq(reg[type], LAMBDA x : x # l))
    ELSE reg

\* a variant in which the newest listener of a type takes the place of the
\* ones before it
windowSetListener(reg, type, l) == MapSet(reg, type, <<l>>)

\* windowAddEventListener(type, listener)
windowAddEventListener(reg, type, l) ==
    LET ls == listenersOf(reg, type)
    IN MapSet(reg, type, IF l \in SeqRange(ls) THEN ls ELSE Append(ls, l))

\* windowRemoveEventListener(type, listener?)
windowRemoveEventListener(reg, type, l) ==
    IF l = NoListener THEN MapDelete(reg, type)
    ELSE IF type \in DOMAIN reg
    THEN MapSet(reg, type, SelectSeq(reg[type], LAMBDA x : x # l))
    ELSE reg

\* the call one listener receives
Call(scope, l, event) ==
    [scope |-> scope, listener |-> l, type |-> event.type,
     pointerId |-> event.pointerId, target |-> event.target,
     currentTarget |-> event.currentTarget, event |-> event]

\* a variant without the try/catch: the first throwing listener ends the loop
\* and the exception leaves the dispatcher
abortOnThrow(scope, ls, event, throwing) ==
    LET bad == {i \in DOMAIN ls : ls[i] \in throwing}
        last == IF bad = {} THEN Len(ls)
                ELSE CHOOSE i \in bad : \A j \in bad : i <= j
    IN [calls |-> [i \in 1..last |-> Call(scope, ls[i], event)],
        threw |-> (bad # {})]

\* the event an application or the engine passes to dispatchEvent
PlainEvent(type) ==
    [type |-> type, pointerId |-> 0, target |-> 0, currentTarget |-> 0]

\* listenersCopy.forEach with try/catch around each listener: every listener
\* of the snapshot is called, a throw is logged and goes no further
invokeAll(scope, ls, event, throwing) ==
    [calls |-> [i \in DOMAIN ls |-> Call(scope, ls[i], event)],
     threw |-> FALSE]

\* What a listener does to the registry it is called from, for the type
\* being dispatched, while it runs: nothing, addEventListener(type, l) or
\* removeEventListener(type, l).
NoEffect == [kind |-> "none", listener |-> 0]

Effects == {NoEffect} \cup [kind : {"add", "remove"}, listener : Listeners]

applyEffect(scope, reg, type, e) ==
    IF e.kind = "add"
    THEN IF scope = "canvas" THEN addEventListener(reg, type, e.listener)
         ELSE windowAddEventListener(reg, type, e.listener)
    ELSE IF e.kind = "remove"
    THEN IF scope = "canvas" THEN removeEventListener(reg, type, e.listener)
         ELSE windowRemoveEventListener(reg, type, e.listener)
    ELSE reg

\* a variant that walks the live set: the next listener called is the first
\* one now registered that has not been called in this dispatch
RECURSIVE liveFrom(_, _, _, _, _)
liveFrom(scope, reg, done, event, effects) ==
    LET todo == SelectSeq(listenersOf(reg, event.type),
                          LAMBDA l : l \notin done)
    IN IF todo = <<>>
       THEN [calls |-> <<>>, reg |-> reg]
       ELSE LET l == Head(todo)
                rest == liveFrom(scope,
                            applyEffect(scope, reg, event.type, effects[l]),
                            done \cup {l}, event, effects)
            IN [calls |-> <<Call(scope, l, event)>> \o rest.calls,
                reg |-> rest.reg]

runLive(scope, reg, listenersCopy, event, effects) ==
    liveFrom(scope, reg, {}, event, effects)

\* const listenersCopy = [...listeners]; listenersCopy.forEach(listener =>
\* listener(event)): the copy is walked to its end while the listeners
\* change the registry behind it
RECURSIVE runListeners(_, _, _, _, _)
runListeners(scope, reg, listenersCopy, event, effects) ==
    IF listenersCopy = <<>>
    THEN [calls |-> <<>>, reg |-> reg]
    ELSE LET l == Head(listenersCopy)
             rest == runListeners(scope,
                         applyEffect(scope, reg, event.type, effects[l]),
                         Tail(listenersCopy), event, effects)
         IN [calls |-> <<Call(scope, l, event)>> \o rest.calls,
             reg |-> rest.reg]

\* a variant in which the canvas hands its events on to the window's
\* listeners
dispatchEventBubbling(c, reg, event, throwing) ==
    LET ls == listenersOf(reg, event.type)
        ws == listenersOf(windowListeners, event.type)
    IN IF ls = <<>>
       THEN [ret |-> FALSE, event |-> event, calls |-> <<>>, threw |-> FALSE]
       ELSE LET ev == [event EXCEPT !.target = c, !.currentTarget = c]
                r == invokeAll("canvas", ls, ev, throwing)
                w == invokeAll("window", ws, ev, throwing)
            IN [ret |-> TRUE, event |-> ev, calls |-> r.calls \o w.calls,
                threw |-> r.threw \/ w.threw]

\* a variant that hands the event to the listeners as it came in
dispatchEventAsGiven(c, reg, event, throwing) ==
    LET ls == listenersOf(reg, event.type)
    IN IF ls = <<>>
       THEN [ret |-> FALSE, event |-> event, calls |-> <<>>, threw |-> FALSE]
       ELSE LET r == invokeAll("canvas", ls, event, throwing)
            IN [ret |-> TRUE, event |-> event, calls |-> r.calls,
                threw |-> r.threw]

\* ExpoCanvasElement.dispatchEvent(event) on the canvas c
dispatchEvent(c, reg, event, throwing) ==
    LET ls == listenersOf(reg, event.type)
    IN IF ls = <<>>
       THEN [ret |-> FALSE, event |-> event, calls |-> <<>>, threw |-> FALSE]
       ELSE LET ev == [event EXCEPT !.target = c, !.currentTarget = c]
                r == invokeAll("canvas", ls, ev, throwing)
            IN [ret |-> TRUE, event |-> ev, calls |-> r.calls, threw |-> r.threw]

\* a variant that reports success whether or not a listener exists, as the
\* first global polyfill does
dispatchAlwaysTrue(reg, event, throwing) ==
    LET ls == listenersOf(reg, event.type)
        r == invokeAll("window", ls, event, throwing)
    IN [ret |-> TRUE, event |-> event, calls |-> r.calls, threw |-> r.threw]

\* dispatchWindowEvent(event)
dispatchWindowEvent(reg, event, throwing) ==
    LET ls == listenersOf(reg, event.type)
    IN IF ls = <<>>
       THEN [ret |-> FALSE, event |-> event, calls |-> <<>>, threw |-> FALSE]
       ELSE LET r == invokeAll("window", ls, event, throwing)
            IN [ret |-> TRUE, event |-> event, calls |-> r.calls,
                threw |-> r.threw]

\* After the module has loaded, globalThis.addEventListener,
\* removeEventListener and dispatchEvent ARE the window functions: the
\* assignments at the end of the window section replace whatever the first
\* polyfill installed, so globalListeners is never written or read again.
Scopes == {"global", "window", "canvas"}

\* createMockElement(tagName): a new object on every call. Its
\* addEventListener and removeEventListener are () => {} and keep nothing;
\* `registered` is not a field of the object: it records the <<type,
\* listener>> pairs callers have passed to addEventListener and not removed.
createMockElement(tagName) == [tagName |-> tagName, registered |-> {}]

\* element.dispatchEvent: () => true
elementDispatchEvent(event) ==
    [ret |-> TRUE, event |-> event, calls |-> <<>>, threw |-> FALSE]

\* document.dispatchEvent: () => true; document.addEventListener and
\* removeEventListener are the window's functions
documentDispatchEvent(event) ==
    [ret |-> TRUE, event |-> event, calls |-> <<>>, threw |-> FALSE]

\* ------------------------------------------------------- ExpoAdapter.ts
\* a variant that rebinds the element that is already active
rebindActiveCanvas(cs, ac, gl, w, h) ==
    IF ac # 0
    THEN [canvases |-> [cs EXCEPT ![ac] =
                           setGLContext(setHeight(setWidth(@, w), h), gl)],
          activeCanvas |-> ac,
          activeGL |-> gl]
    ELSE [canvases |-> Append(cs, setGLContext(ExpoCanvasElement(w, h), gl)),
          activeCanvas |-> Len(cs) + 1,
          activeGL |-> gl]

\* a variant that binds an element that holds no GL context yet, when there
\* is one, instead of making a new element
setActiveGLContextAdopting(cs, ac, gl, w, h) ==
    IF \E c \in DOMAIN cs : cs[c].gl = 0
    THEN LET c == CHOOSE x \in DOMAIN cs : cs[x].gl = 0
         IN [canvases |-> [cs EXCEPT ![c] = setGLContext(
                               setHeight(setWidth(@, w), h), gl)],
             activeCanvas |-> c,
             activeGL |-> gl]
    ELSE [canvases |-> Append(cs, setGLContext(ExpoCanvasElement(w, h), gl)),
          activeCanvas |-> Len(cs) + 1,
          activeGL |-> gl]

\* setActiveGLContext(gl, width, height): a new element, bound and recorded
setActiveGLContext(cs, ac, gl, w, h) ==
    [canvases |-> Append(cs, setGLContext(ExpoCanvasElement(w, h), gl)),
     activeCanvas |-> Len(cs) + 1,
     activeGL |-> gl]

\* a variant in which current() hands out the canvas made last
lastCreatedCanvas == IF canvases = <<>> THEN 0 ELSE Len(canvases)

\* getActiveCanvas()
getActiveCanvas == activeCanvas

getActiveGL == activeGL

\* a variant that forgets the canvas but keeps the GL handle
clearCanvasOnly == [activeCanvas |-> 0, activeGL |-> activeGL]

\* clearActiveContext()
clearActiveContext == [activeCanvas |-> 0, activeGL |-> 0]

\* set width(value) { this._width = value; this.dispatchEvent({type:
\* 'resize'}) } on the canvas with index idx: the value is stored, then the
\* canvas's own listeners of 'resize' are called; `observed` is the width
\* they read
widthSetter(idx, c, value) ==
    LET stored == setWidth(c, value)
        r == dispatchEvent(idx, stored.listeners, PlainEvent("resize"), {})
    IN [canvas |-> stored, calls |-> r.calls, observed |-> stored.width]

\* set height(value)
heightSetter(idx, c, value) ==
    LET stored == setHeight(c, value)
        r == dispatchEvent(idx, stored.listeners, PlainEvent("resize"), {})
    IN [canvas |-> stored, calls |-> r.calls, observed |-> stored.height]

\* a variant that hands out a new placeholder on every call
createCanvasFresh(cs, ac, w, h) ==
    [canvases |-> Append(cs, ExpoCanvasElement(
                     IF w # Undefined THEN w ELSE 1,
                     IF h # Undefined THEN h ELSE 1)),
     ret |-> Len(cs) + 1, calls |-> <<>>]

\* ExpoAdapter.createCanvas(width?, height?)
createCanvas(cs, ac, w, h) ==
    IF ac # 0
    THEN LET r1 == IF w # Undefined THEN widthSetter(ac, cs[ac], w)
                   ELSE [canvas |-> cs[ac], calls |-> <<>>]
             r2 == IF h # Undefined THEN heightSetter(ac, r1.canvas, h)
                   ELSE [canvas |-> r1.canvas, calls |-> <<>>]
         IN [canvases |-> [cs EXCEPT ![ac] = r2.canvas], ret |-> ac,
             calls |-> r1.calls \o r2.calls]
    ELSE [canvases |-> Append(cs, ExpoCanvasElement(
                          IF w # Undefined THEN w ELSE 1,
                          IF h # Undefined THEN h ELSE 1)),
          ret |-> Len(cs) + 1, calls |-> <<>>]

\* ---------------------------------------------------- touchEventBridge
IsUp(eventType) == eventType = "pointerup" \/ eventType = "pointercancel"

\* x = (touch.locationX ?? touch.pageX - offsetX) * ratio. The host's touch
\* records always carry locationX/locationY, so the ?? branch is not taken.
toCanvasX(touch, ratio) == touch.locationX * ratio

toCanvasY(touch, ratio) == touch.locationY * ratio

\* a variant that measures a first contact from the origin
movementFromOrigin(tp, id, x, y) ==
    IF id \in DOMAIN tp
    THEN [x |-> x - tp[id].x, y |-> y - tp[id].y]
    ELSE [x |-> x, y |-> y]

\* prevPos = touchPositions.get(id); movement = prevPos ? x - prevPos.x : 0
movementOf(tp, id, x, y) ==
    IF id \in DOMAIN tp
    THEN [x |-> x - tp[id].x, y |-> y - tp[id].y]
    ELSE [x |-> 0, y |-> 0]

\* a variant that records the position on pointerdown only
updateOnDownOnly(tp, id, eventType, x, y) ==
    IF IsUp(eventType)
    THEN MapDelete(tp, id)
    ELSE IF eventType = "pointerdown" \/ id \notin DOMAIN tp
    THEN MapSet(tp, id, [x |-> x, y |-> y])
    ELSE tp

\* delete on pointerup/pointercancel, set otherwise
updateStoredPosition(tp, id, eventType, x, y) ==
    IF IsUp(eventType)
    THEN MapDelete(tp, id)
    ELSE MapSet(tp, id, [x |-> x, y |-> y])

\* a variant that reports the left button in every phase
buttonAlwaysLeft(eventType) == 0

buttonOf(eventType) ==
    IF eventType = "pointerdown" \/ IsUp(eventType) THEN 0 ELSE 0 - 1

buttonsOf(eventType) == IF IsUp(eventType) THEN 0 ELSE 1

\* pressure: isUp ? 0 : 0.5, as a fraction <<numerator, denominator>>
pressureOf(eventType) == IF IsUp(eventType) THEN <<0, 1>> ELSE <<1, 2>>

\* a variant that updates the table before it computes the movement
createAfterUpdate(tp, touch, eventType, isPrimary, ratio) ==
    LET x == toCanvasX(touch, ratio)
        y == toCanvasY(touch, ratio)
        after == updateStoredPosition(tp, touch.identifier, eventType, x, y)
        mv == movementOf(after, touch.identifier, x, y)
    IN [event |-> [pointerId |-> touch.identifier,
                   type |-> eventType,
                   isPrimary |-> isPrimary,
                   button |-> buttonOf(eventType),
                   buttons |-> buttonsOf(eventType),
                   pressure |-> pressureOf(eventType),
                   clientX |-> x, clientY |-> y,
                   movementX |-> mv.x, movementY |-> mv.y,
                   globalX |-> x, globalY |-> y],
        positions |-> after]

\* createPointerEvent: the event value and the table it leaves behind
createPointerEvent(tp, touch, eventType, isPrimary, ratio) ==
    LET x == toCanvasX(touch, ratio)
        y == toCanvasY(touch, ratio)
        mv == movementOf(tp, touch.identifier, x, y)
    IN [event |-> [pointerId |-> touch.identifier,
                   type |-> eventType,
                   isPrimary |-> isPrimary,
                   button |-> buttonOf(eventType),
                   buttons |-> buttonsOf(eventType),
                   pressure |-> pressureOf(eventType),
                   clientX |-> x, clientY |-> y,
                   movementX |-> mv.x, movementY |-> mv.y,
                   globalX |-> x, globalY |-> y],
        positions |-> updateStoredPosition(tp, touch.identifier, eventType, x, y)]

\* a variant that takes the primary from the changed-touch list
primaryFromChanged(changed, allTouches) ==
    IF Len(changed) > 0 THEN changed[1].identifier ELSE 0

\* allTouches.length > 0 ? allTouches[0].identifier : (touches[0]?.identifier ?? 0)
primaryIdentifier(changed, allTouches) ==
    IF Len(allTouches) > 0 THEN allTouches[1].identifier
    ELSE IF Len(changed) > 0 THEN changed[1].identifier
    ELSE 0

RECURSIVE mapTouches(_, _, _, _, _)
mapTouches(tp, ts, primary, eventType, ratio) ==
    IF ts = <<>>
    THEN [events |-> <<>>, positions |-> tp]
    ELSE LET r == createPointerEvent(tp, Head(ts), eventType,
                                     Head(ts).identifier = primary, ratio)
             rest == mapTouches(r.positions, Tail(ts), primary, eventType, ratio)
         IN [events |-> <<r.event>> \o rest.events,
             positions |-> rest.positions]

\* convertTouchToPointerEvents(event, eventType, options)
convertTouchToPointerEvents(tp, changed, allTouches, eventType, ratio) ==
    mapTouches(tp, changed, primaryIdentifier(changed, allTouches),
               eventType, ratio)

\* a variant that leaves the table as it is
keepTouchTracking == touchPositions

\* clearTouchTracking()
clearTouchTracking == EmptyMap

\* ------------------------------------------------ PixiView touch handlers
\* The PointerEvent polyfill's constructor(type, init) keeps the fields it
\* names and drops every other field of init; of the fields followed here it
\* names these (movementX, movementY and global are not among them).
PointerEventFields ==
    {"type", "pointerId", "isPrimary", "button", "buttons", "pressure",
     "clientX", "clientY"}

\* new PointerEvent(type, init); target = init?.target ?? null
PointerEvent(type, init) ==
    [f \in PointerEventFields \cup {"target", "currentTarget"} |->
        IF f = "type" THEN type
        ELSE IF f \in {"target", "currentTarget"} THEN 0
        ELSE init[f]]

\* eventData = new PointerEventConstructor(eventType, {...event, view, ...});
\* globalThis.PointerEvent is always defined once polyfills.ts has loaded.
\* Then target and currentTarget = canvas.
eventData(e, canvas) ==
    [PointerEvent(e.type, e) EXCEPT !.target = canvas, !.currentTarget = canvas]

\* a variant that offers an event to the window only when no canvas listener
\* took it
RECURSIVE forwardUnhandled(_, _, _, _, _)
forwardUnhandled(canvas, creg, wreg, events, throwing) ==
    IF canvas = 0 \/ events = <<>>
    THEN [calls |-> <<>>, threw |-> FALSE]
    ELSE LET ev == eventData(Head(events), canvas)
             onCanvas == dispatchEvent(canvas, creg, ev, throwing)
             onWindow == IF onCanvas.ret
                         THEN [calls |-> <<>>, threw |-> FALSE]
                         ELSE dispatchWindowEvent(wreg, onCanvas.event,
                                                  throwing)
             rest == forwardUnhandled(canvas, creg, wreg, Tail(events),
                                      throwing)
         IN [calls |-> onCanvas.calls \o onWindow.calls \o rest.calls,
             threw |-> onCanvas.threw \/ onWindow.threw \/ rest.threw]

\* a variant that offers the whole batch to the canvas and then the whole
\* batch to the window
RECURSIVE canvasPass(_, _, _, _)
canvasPass(canvas, creg, events, throwing) ==
    IF events = <<>> THEN <<>>
    ELSE dispatchEvent(canvas, creg, eventData(Head(events), canvas),
                       throwing).calls
         \o canvasPass(canvas, creg, Tail(events), throwing)

RECURSIVE windowPass(_, _, _, _)
windowPass(canvas, wreg, events, throwing) ==
    IF events = <<>> THEN <<>>
    ELSE dispatchWindowEvent(wreg, eventData(Head(events), canvas),
                             throwing).calls
         \o windowPass(canvas, wreg, Tail(events), throwing)

forwardScopeByScope(canvas, creg, wreg, events, throwing) ==
    IF canvas = 0
    THEN [calls |-> <<>>, threw |-> FALSE]
    ELSE [calls |-> canvasPass(canvas, creg, events, throwing)
                    \o windowPass(canvas, wreg, events, throwing),
          threw |-> FALSE]

\* forwardPointerEvent(events, eventType): each event goes to the canvas and
\* then to the window before the next event is taken
RECURSIVE forwardPointerEvent(_, _, _, _, _)
forwardPointerEvent(canvas, creg, wreg, events, throwing) ==
    IF canvas = 0 \/ events = <<>>
    THEN [calls |-> <<>>, threw |-> FALSE]
    ELSE LET ev == eventData(Head(events), canvas)
             onCanvas == dispatchEvent(canvas, creg, ev, throwing)
             onWindow == dispatchWindowEvent(wreg, onCanvas.event, throwing)
             rest == forwardPointerEvent(canvas, creg, wreg, Tail(events),
                                         throwing)
         IN IF onCanvas.threw
            THEN [calls |-> onCanvas.calls, threw |-> TRUE]
            ELSE IF onWindow.threw
            THEN [calls |-> onCanvas.calls \o onWindow.calls, threw |-> TRUE]
            ELSE [calls |-> onCanvas.calls \o onWindow.calls \o rest.calls,
                  threw |-> rest.threw]

\* a variant that converts the touches whether or not a canvas is bound
handleTouchStartUnguarded(tp, changed, allTouches, ratio, interactive, canvas) ==
    convertTouchToPointerEvents(tp, changed, allTouches, "pointerdown", ratio)

\* if (!interactiveEvents || !canvasRef.current) return;
handleTouchStart(tp, changed, allTouches, ratio, interactive, canvas) ==
    IF ~interactive \/ canvas = 0
    THEN [events |-> <<>>, positions |-> tp]
    ELSE convertTouchToPointerEvents(tp, changed, allTouches, "pointerdown", ratio)

handleTouchMove(tp, changed, allTouches, ratio, interactive, canvas) ==
    IF ~interactive \/ canvas = 0
    THEN [events |-> <<>>, positions |-> tp]
    ELSE convertTouchToPointerEvents(tp, changed, allTouches, "pointermove", ratio)

handleTouchEnd(tp, changed, allTouches, ratio, interactive, canvas) ==
    IF ~interactive \/ canvas = 0
    THEN [events |-> <<>>, positions |-> tp]
    ELSE convertTouchToPointerEvents(tp, changed, allTouches, "pointerup", ratio)

\* the cancel handler also calls clearTouchTracking() after forwarding
handleTouchCancel(tp, changed, allTouches, ratio, interactive, canvas) ==
    IF ~interactive \/ canvas = 0
    THEN [events |-> <<>>, positions |-> tp]
    ELSE [events |-> convertTouchToPointerEvents(tp, changed, allTouches,
                                                 "pointercancel", ratio).events,
          positions |-> clearTouchTracking]

\* ------------------------------------------------------------ the engine
\* The renderer sizes its canvas to the logical size times its resolution
\* and, with autoDensity, writes the logical size to canvas.style.
rendererResize(c, w, h, res) ==
    [setHeight(setWidth(c, w * res), h * res)
        EXCEPT !.styleWidth = Px(w), !.styleHeight = Px(h)]

\* new Application(): not initialised, no hook, not destroyed
Application(view, canvas) ==
    [view |-> view, canvas |-> canvas, initialised |-> FALSE,
     postrender |-> FALSE, destroyed |-> FALSE, notified |-> FALSE]

\* await app.init(...) resolved
initialised(app) == [app EXCEPT !.initialised = TRUE]

\* app.renderer.runners.postrender.add({postrender: ...})
addPostrender(app) == [app EXCEPT !.postrender = TRUE]

\* onApplicationCreate?.(app)
onApplicationCreate(app) == [app EXCEPT !.notified = TRUE]

\* app.destroy(true, {children: true}): the renderer and its runners go
destroy(app) == [app EXCEPT !.destroyed = TRUE, !.postrender = FALSE]

\* ------------------------------------------------------------------ Init
NoOutcome == [op |-> "none"]

\* no second view has been mounted
NoPeer == [mounted |-> FALSE, glRef |-> 0, canvasRef |-> 0, appRef |-> 0]

Init ==
    /\ activeCanvas = 0
    /\ activeGL = 0
    /\ canvases = <<>>
    /\ glSurface = <<>>
    /\ touchPositions = EmptyMap
    /\ pixelRatio \in 1..MaxRatio
    /\ resolution \in 0..MaxRatio
    /\ interactiveEvents \in BOOLEAN
    /\ mounted = TRUE
    /\ glRef = 0
    /\ canvasRef = 0
    /\ appRef = <<>>
    /\ layoutRef = [width |-> 0, height |-> 0]
    /\ initPending = {}
    /\ touches = <<>>
    /\ responder = FALSE
    /\ built = <<>>
    /\ lastRet = 0
    /\ lastPos = EmptyMap
    /\ gesturePrimary = 0
    /\ retired = {}
    /\ apps = <<>>
    /\ globalListeners = EmptyMap
    /\ windowListeners = EmptyMap
    /\ elements = <<>>
    /\ calls = <<>>
    /\ outcome = NoOutcome
    /\ peer = NoPeer

\* res = resolution || pixelRatio
effectiveResolution(resolutionProp, ratio) ==
    IF resolutionProp # 0 THEN resolutionProp ELSE ratio

NoTouchCallback == built' = <<>>

\* the step calls no listener and is not one of the observed calls
Silent == calls' = <<>> /\ outcome' = NoOutcome

\* ------------------------------------------------------ PixiView actions
\* handleLayout(event)
HandleLayout(lw, lh) ==
    /\ mounted
    /\ layoutRef' = [width |-> lw, height |-> lh]
    /\ IF appRef # <<>>
       THEN LET res == effectiveResolution(resolution, pixelRatio)
                app == appRef[1]
            IN canvases' = [canvases EXCEPT ![app.canvas] =
                   rendererResize(@, lw * res, lh * res, app.resolution)]
       ELSE canvases' = canvases
    /\ NoTouchCallback
    /\ Silent
    /\ lastRet' = 0
    /\ UNCHANGED <<activeCanvas, activeGL, glSurface, touchPositions, propVars,
                   interactiveEvents, mounted, glRef, canvasRef, appRef,
                   initPending, hostVars, histVars, retired, apps, lsnVars>>

\* handleContextCreate(gl), up to the await: the host created a native
\* surface of logical size sw x sh and delivers its context.
HandleContextCreate(sw, sh) ==
    /\ Len(glSurface) < MaxGL
    /\ Len(canvases) < MaxCanvas
    /\ layoutRef.width # 0 => sw = layoutRef.width
    /\ layoutRef.height # 0 => sh = layoutRef.height
    /\ LET gl == Len(glSurface) + 1
           physicalWidth == sw * pixelRatio
           physicalHeight == sh * pixelRatio
           logicalWidth == IF layoutRef.width # 0 THEN layoutRef.width
                           ELSE physicalWidth \div pixelRatio
           logicalHeight == IF layoutRef.height # 0 THEN layoutRef.height
                            ELSE physicalHeight \div pixelRatio
           res == effectiveResolution(resolution, pixelRatio)
           r == setActiveGLContext(canvases, activeCanvas, gl,
                                   physicalWidth, physicalHeight)
           canvas == r.activeCanvas
           app == Len(apps) + 1
       IN /\ glSurface' = Append(glSurface,
                 [drawingBufferWidth |-> physicalWidth,
                  drawingBufferHeight |-> physicalHeight])
          /\ glRef' = gl
          /\ canvases' = [r.canvases EXCEPT
                 ![canvas].styleWidth = Px(logicalWidth),
                 ![canvas].styleHeight = Px(logicalHeight)]
          /\ activeCanvas' = r.activeCanvas
          /\ activeGL' = r.activeGL
          /\ canvasRef' = canvas
          /\ apps' = Append(apps, Application("view", canvas))
          /\ initPending' = initPending \cup
                 {[canvas |-> canvas, width |-> logicalWidth,
                   height |-> logicalHeight, resolution |-> res,
                   app |-> app]}
          /\ retired' = IF activeCanvas # 0
                        THEN retired \cup {activeCanvas} ELSE retired
    /\ NoTouchCallback
    /\ Silent
    /\ lastRet' = 0
    /\ UNCHANGED <<touchPositions, propVars, interactiveEvents, mounted,
                   appRef, layoutRef, hostVars, histVars, lsnVars>>

\* handleContextCreate(gl), after the await: app.init() resolved
InitResolve(p) ==
    /\ p \in initPending
    /\ initPending' = initPending \ {p}
    /\ canvases' = [canvases EXCEPT ![p.canvas] =
           rendererResize(@, p.width, p.height, p.resolution)]
    /\ appRef' = <<[canvas |-> p.canvas, resolution |-> p.resolution,
                     app |-> p.app]>>
    /\ apps' = [apps EXCEPT ![p.app] = onApplicationCreate(addPostrender(
                                           initialised(@)))]
    /\ NoTouchCallback
    /\ Silent
    /\ lastRet' = 0
    /\ UNCHANGED <<activeCanvas, activeGL, glSurface, touchPositions, propVars,
                   interactiveEvents, mounted, glRef, canvasRef, layoutRef,
                   hostVars, histVars, retired, lsnVars>>

\* the cleanup function of the unmount effect
Unmount ==
    /\ mounted
    /\ mounted' = FALSE
    /\ appRef' = <<>>
    /\ apps' = IF appRef # <<>>
               THEN [apps EXCEPT ![appRef[1].app] = destroy(@)]
               ELSE apps
    /\ glRef' = 0
    /\ canvasRef' = 0
    /\ touchPositions' = clearTouchTracking
    /\ activeCanvas' = clearActiveContext.activeCanvas
    /\ activeGL' = clearActiveContext.activeGL
    /\ NoTouchCallback
    /\ Silent
    /\ lastRet' = 0
    /\ UNCHANGED <<canvases, glSurface, propVars, interactiveEvents, layoutRef,
                   initPending, hostVars, histVars, retired, lsnVars>>

\* A second PixiView of the same process runs the same component code on
\* the same module-level state. Of the peer only what it does to that shared
\* state is followed; its own Application is not.
\* the peer is rendered
PeerMount ==
    /\ ~peer.mounted
    /\ peer.glRef = 0
    /\ peer' = [peer EXCEPT !.mounted = TRUE]
    /\ NoTouchCallback
    /\ Silent
    /\ lastRet' = 0
    /\ UNCHANGED <<regVars, touchPositions, propVars, interactiveEvents,
                   viewVars, hostVars, histVars, retired, apps,
                   globalListeners, windowListeners,
                   elements>>

\* the peer's handleContextCreate(gl), up to the await
PeerContextCreate(sw, sh) ==
    /\ peer.mounted
    /\ peer.glRef = 0
    /\ Len(glSurface) < MaxGL
    /\ Len(canvases) < MaxCanvas
    /\ LET gl == Len(glSurface) + 1
           physicalWidth == sw * pixelRatio
           physicalHeight == sh * pixelRatio
           r == setActiveGLContext(canvases, activeCanvas, gl,
                                   physicalWidth, physicalHeight)
           canvas == r.activeCanvas
       IN /\ glSurface' = Append(glSurface,
                 [drawingBufferWidth |-> physicalWidth,
                  drawingBufferHeight |-> physicalHeight])
          /\ canvases' = [r.canvases EXCEPT
                 ![canvas].styleWidth = Px(sw),
                 ![canvas].styleHeight = Px(sh)]
          /\ activeCanvas' = r.activeCanvas
          /\ activeGL' = r.activeGL
          /\ peer' = [peer EXCEPT !.glRef = gl, !.canvasRef = canvas]
          /\ retired' = IF activeCanvas # 0
                        THEN retired \cup {activeCanvas} ELSE retired
    /\ NoTouchCallback
    /\ Silent
    /\ lastRet' = 0
    /\ UNCHANGED <<touchPositions, propVars, interactiveEvents, viewVars,
                   hostVars, histVars, apps, globalListeners, windowListeners,
                   elements>>

\* the peer's cleanup function
PeerUnmount ==
    /\ peer.mounted
    /\ peer' = [peer EXCEPT !.mounted = FALSE, !.glRef = 0, !.canvasRef = 0,
                            !.appRef = 0]
    /\ touchPositions' = clearTouchTracking
    /\ activeCanvas' = clearActiveContext.activeCanvas
    /\ activeGL' = clearActiveContext.activeGL
    /\ NoTouchCallback
    /\ Silent
    /\ lastRet' = 0
    /\ UNCHANGED <<canvases, glSurface, propVars, interactiveEvents, viewVars,
                   hostVars, histVars, retired, apps, globalListeners,
                   windowListeners,
                   elements>>

\* the postrender hook: if (glRef.current) glRef.current.endFrameEXP()
postrender(gl) == IF gl # 0 THEN <<[op |-> "endFrameEXP", gl |-> gl]>> ELSE <<>>

\* app.render(): one render cycle of the application a. The renderer issues
\* the frame's draw commands and then runs its postrender runner, which
\* holds the view's hook once the continuation has added it.
appRender(a) ==
    <<[op |-> "draw", gl |-> canvases[apps[a].canvas].gl]>>
    \o (IF apps[a].postrender THEN postrender(glRef) ELSE <<>>)

\* glRef.current.endFrameEXP()
endFrameEXP(gl) == <<[op |-> "endFrameEXP", gl |-> gl]>>

\* the handle's render(): if (appRef.current && glRef.current)
\* { appRef.current.render(); glRef.current.endFrameEXP(); }
handleRender ==
    IF appRef # <<>> /\ glRef # 0
    THEN appRender(appRef[1].app) \o endFrameEXP(glRef)
    ELSE <<>>

\* One render cycle of the ticker for the application a
Frame(a) ==
    /\ a \in DOMAIN apps
    /\ apps[a].initialised
    /\ ~apps[a].destroyed
    /\ outcome' = [op |-> "frame", app |-> a,
                   trace |-> appRender(a),
                   threw |-> FALSE]
    /\ NoTouchCallback
    /\ calls' = <<>>
    /\ lastRet' = 0
    /\ UNCHANGED <<regVars, touchPositions, propVars, interactiveEvents,
                   viewVars, hostVars, histVars, retired, apps, lsnVars>>

\* the parent calls ref.current.render()
Render ==
    /\ mounted
    /\ outcome' = [op |-> "render", trace |-> handleRender, threw |-> FALSE]
    /\ NoTouchCallback
    /\ calls' = <<>>
    /\ lastRet' = 0
    /\ UNCHANGED <<regVars, touchPositions, propVars, interactiveEvents,
                   viewVars, hostVars, histVars, retired, apps, lsnVars>>

\* ------------------------------------------------------- engine actions
\* the engine asks the adapter for a canvas
CreateCanvas(w, h) ==
    /\ activeCanvas # 0 \/ Len(canvases) < MaxCanvas
    /\ LET r == createCanvas(canvases, activeCanvas, w, h)
       IN /\ canvases' = r.canvases
          /\ lastRet' = r.ret
          /\ calls' = r.calls
    /\ outcome' = NoOutcome
    /\ NoTouchCallback
    /\ UNCHANGED <<activeCanvas, activeGL, glSurface, touchPositions, propVars,
                   interactiveEvents, viewVars, hostVars, histVars, retired,
                   apps, lsnVars>>

\* the registry a scope's functions work on
registryOf(scope, c) ==
    IF scope = "canvas" THEN canvases[c].listeners ELSE windowListeners

\* scope.addEventListener(type, l)
AddEventListener(scope, c, type, l) ==
    /\ IF scope = "canvas"
       THEN /\ c \in DOMAIN canvases
            /\ canvases' = [canvases EXCEPT ![c].listeners =
                                addEventListener(@, type, l)]
            /\ UNCHANGED windowListeners
       ELSE /\ c = 0
            /\ windowListeners' = windowAddEventListener(windowListeners,
                                                         type, l)
            /\ UNCHANGED canvases
    /\ outcome' = [op |-> "add", scope |-> scope, canvas |-> c,
                   type |-> type, listener |-> l]
    /\ NoTouchCallback
    /\ calls' = <<>>
    /\ lastRet' = 0
    /\ UNCHANGED <<activeCanvas, activeGL, glSurface, touchPositions, propVars,
                   interactiveEvents, viewVars, hostVars, histVars, retired,
                   apps, globalListeners, peer,
                   elements>>

\* scope.removeEventListener(type, l?)
RemoveEventListener(scope, c, type, l) ==
    /\ IF scope = "canvas"
       THEN /\ c \in DOMAIN canvases
            /\ canvases' = [canvases EXCEPT ![c].listeners =
                                removeEventListener(@, type, l)]
            /\ UNCHANGED windowListeners
       ELSE /\ c = 0
            /\ windowListeners' = windowRemoveEventListener(windowListeners,
                                                            type, l)
            /\ UNCHANGED canvases
    /\ outcome' = [op |-> "remove", scope |-> scope, canvas |-> c,
                   type |-> type, listener |-> l]
    /\ NoTouchCallback
    /\ calls' = <<>>
    /\ lastRet' = 0
    /\ UNCHANGED <<activeCanvas, activeGL, glSurface, touchPositions, propVars,
                   interactiveEvents, viewVars, hostVars, histVars, retired,
                   apps, globalListeners, peer,
                   elements>>

\* scope.dispatchEvent({type}); the listeners in `throwing` throw when called
DispatchEvent(scope, c, type, throwing) ==
    /\ IF scope = "canvas" THEN c \in DOMAIN canvases ELSE c = 0
    /\ throwing \subseteq SeqRange(listenersOf(registryOf(scope, c), type))
    /\ scope = "document" => throwing = {}
    /\ LET event == PlainEvent(type)
           r == IF scope = "canvas"
                THEN dispatchEvent(c, canvases[c].listeners, event, throwing)
                ELSE IF scope = "document"
                THEN documentDispatchEvent(event)
                ELSE dispatchWindowEvent(windowListeners, event, throwing)
       IN /\ calls' = r.calls
          /\ outcome' = [op |-> "dispatch", scope |-> scope, canvas |-> c,
                         type |-> type, ret |-> r.ret, threw |-> r.threw,
                         throwing |-> throwing,
                         modified |-> (r.event # event)]
    /\ NoTouchCallback
    /\ lastRet' = 0
    /\ UNCHANGED <<activeCanvas, activeGL, canvases, glSurface, touchPositions,
                   propVars, interactiveEvents, viewVars, hostVars, histVars,
                   retired, apps, lsnVars>>

\* document.createElement(tagName)
CreateElement(tagName) ==
    /\ Len(elements) < MaxElement
    /\ elements' = Append(elements, createMockElement(tagName))
    /\ outcome' = [op |-> "createElement", element |-> Len(elements) + 1]
    /\ NoTouchCallback
    /\ calls' = <<>>
    /\ lastRet' = 0
    /\ UNCHANGED <<regVars, canvases, touchPositions, propVars,
                   interactiveEvents, viewVars, hostVars, histVars, retired,
                   apps, globalListeners, windowListeners, peer>>

\* element.addEventListener(type, l)
ElementAddEventListener(e, type, l) ==
    /\ e \in DOMAIN elements
    /\ elements' = [elements EXCEPT ![e].registered = @ \cup {<<type, l>>}]
    /\ outcome' = [op |-> "elementAdd", element |-> e, type |-> type,
                   listener |-> l]
    /\ NoTouchCallback
    /\ calls' = <<>>
    /\ lastRet' = 0
    /\ UNCHANGED <<regVars, canvases, touchPositions, propVars,
                   interactiveEvents, viewVars, hostVars, histVars, retired,
                   apps, globalListeners, windowListeners, peer>>

\* element.removeEventListener(type, l)
ElementRemoveEventListener(e, type, l) ==
    /\ e \in DOMAIN elements
    /\ elements' = [elements EXCEPT ![e].registered = @ \ {<<type, l>>}]
    /\ outcome' = [op |-> "elementRemove", element |-> e, type |-> type,
                   listener |-> l]
    /\ NoTouchCallback
    /\ calls' = <<>>
    /\ lastRet' = 0
    /\ UNCHANGED <<regVars, canvases, touchPositions, propVars,
                   interactiveEvents, viewVars, hostVars, histVars, retired,
                   apps, globalListeners, windowListeners, peer>>

\* element.dispatchEvent({type})
ElementDispatchEvent(e, type) ==
    /\ e \in DOMAIN elements
    /\ LET r == elementDispatchEvent(PlainEvent(type))
       IN /\ calls' = r.calls
          /\ outcome' = [op |-> "elementDispatch", element |-> e,
                         type |-> type, ret |-> r.ret]
    /\ NoTouchCallback
    /\ lastRet' = 0
    /\ UNCHANGED <<regVars, canvases, touchPositions, propVars,
                   interactiveEvents, viewVars, hostVars, histVars, retired,
                   apps, lsnVars>>

\* scope.dispatchEvent({type}) with listeners that add or remove listeners
\* of the same scope and type while they run
ReentrantDispatch(scope, c, type, effects) ==
    /\ IF scope = "canvas" THEN c \in DOMAIN canvases ELSE c = 0
    /\ LET reg == registryOf(scope, c)
           listenersCopy == listenersOf(reg, type)
           event == IF scope = "canvas"
                    THEN [PlainEvent(type) EXCEPT !.target = c,
                                                  !.currentTarget = c]
                    ELSE PlainEvent(type)
           r == runListeners(scope, reg, listenersCopy, event, effects)
       IN /\ listenersCopy # <<>>
          /\ calls' = r.calls
          /\ IF scope = "canvas"
             THEN /\ canvases' = [canvases EXCEPT ![c].listeners = r.reg]
                  /\ UNCHANGED windowListeners
             ELSE /\ windowListeners' = r.reg
                  /\ UNCHANGED canvases
          /\ outcome' = [op |-> "redispatch", scope |-> scope, canvas |-> c,
                         type |-> type, snapshot |-> listenersCopy,
                         effects |-> effects]
    /\ NoTouchCallback
    /\ lastRet' = 0
    /\ UNCHANGED <<activeCanvas, activeGL, glSurface, touchPositions, propVars,
                   interactiveEvents, viewVars, hostVars, histVars, retired,
                   apps, globalListeners, peer, elements>>

\* canvas.toDataURL()
ToDataURL(c) ==
    /\ c \in DOMAIN canvases
    /\ LET r == toDataURL(canvases[c])
       IN outcome' = [op |-> "toDataURL", canvas |-> c, value |-> r.value,
                      readPixels |-> r.readPixels, before |-> canvases[c]]
    /\ NoTouchCallback
    /\ calls' = <<>>
    /\ lastRet' = 0
    /\ UNCHANGED <<regVars, canvases, touchPositions, propVars,
                   interactiveEvents, viewVars, hostVars, histVars, retired,
                   apps, lsnVars>>

\* canvas.toBlob(callback)
ToBlob(c) ==
    /\ c \in DOMAIN canvases
    /\ LET r == toBlob(canvases[c])
       IN outcome' = [op |-> "toBlob", canvas |-> c,
                      callbacks |-> r.callbacks, before |-> canvases[c]]
    /\ NoTouchCallback
    /\ calls' = <<>>
    /\ lastRet' = 0
    /\ UNCHANGED <<regVars, canvases, touchPositions, propVars,
                   interactiveEvents, viewVars, hostVars, histVars, retired,
                   apps, lsnVars>>

\* canvas.transferControlToOffscreen()
TransferControlToOffscreen(c) ==
    /\ c \in DOMAIN canvases
    /\ LET r == transferControlToOffscreen(canvases[c])
       IN outcome' = [op |-> "transfer", canvas |-> c, threw |-> r.threw,
                      error |-> r.error, before |-> canvases[c]]
    /\ NoTouchCallback
    /\ calls' = <<>>
    /\ lastRet' = 0
    /\ UNCHANGED <<regVars, canvases, touchPositions, propVars,
                   interactiveEvents, viewVars, hostVars, histVars, retired,
                   apps, lsnVars>>

\* canvas.getContext(type) called by the engine or the application
GetContext(c, type) ==
    /\ c \in DOMAIN canvases
    /\ LET r == getContext(canvases[c], type)
       IN /\ canvases' = [canvases EXCEPT ![c] = r.canvas]
          /\ outcome' = [op |-> "getContext", canvas |-> c, type |-> type,
                         value |-> r.value, threw |-> r.threw,
                         glBefore |-> canvases[c].gl]
    /\ NoTouchCallback
    /\ calls' = <<>>
    /\ lastRet' = 0
    /\ UNCHANGED <<activeCanvas, activeGL, glSurface, touchPositions, propVars,
                   interactiveEvents, viewVars, hostVars, histVars, retired,
                   apps, lsnVars>>

\* canvas.width = value
AssignWidth(c, value) ==
    /\ c \in DOMAIN canvases
    /\ LET r == widthSetter(c, canvases[c], value)
       IN /\ canvases' = [canvases EXCEPT ![c] = r.canvas]
          /\ calls' = r.calls
          /\ outcome' = [op |-> "assign", canvas |-> c, dim |-> "width",
                         old |-> canvases[c].width, value |-> value,
                         observed |-> r.observed]
    /\ NoTouchCallback
    /\ lastRet' = 0
    /\ UNCHANGED <<activeCanvas, activeGL, glSurface, touchPositions, propVars,
                   interactiveEvents, viewVars, hostVars, histVars, retired,
                   apps, lsnVars>>

\* canvas.height = value
AssignHeight(c, value) ==
    /\ c \in DOMAIN canvases
    /\ LET r == heightSetter(c, canvases[c], value)
       IN /\ canvases' = [canvases EXCEPT ![c] = r.canvas]
          /\ calls' = r.calls
          /\ outcome' = [op |-> "assign", canvas |-> c, dim |-> "height",
                         old |-> canvases[c].height, value |-> value,
                         observed |-> r.observed]
    /\ NoTouchCallback
    /\ lastRet' = 0
    /\ UNCHANGED <<activeCanvas, activeGL, glSurface, touchPositions, propVars,
                   interactiveEvents, viewVars, hostVars, histVars, retired,
                   apps, lsnVars>>

\* ------------------------------------------------- host gesture system
\* The view's touchResponderProps wire four responder callbacks:
\*   onResponderGrant     -> handleTouchStart   (the view becomes responder)
\*   onResponderMove      -> handleTouchMove
\*   onResponderRelease   -> handleTouchEnd     (the last contact lifted)
\*   onResponderTerminate -> handleTouchCancel
\* and only when interactiveEvents is true. onResponderStart (a further
\* contact while the view is responder) and onResponderEnd (a contact lifted
\* while others remain) have no handler.

Touch(id, lx, ly) == [identifier |-> id, locationX |-> lx, locationY |-> ly]

\* history: the coordinates of the latest start/move event of each id, with
\* no end or cancel event after it
recordPositions(lp, eventType, events) ==
    IF events = <<>> THEN lp
    ELSE IF IsUp(eventType) THEN EmptyMap
    ELSE LET ids == {events[k].pointerId : k \in DOMAIN events}
         IN [i \in (DOMAIN lp) \cup ids |->
                IF i \in ids
                THEN LET k == CHOOSE k \in DOMAIN events : events[k].pointerId = i
                     IN [x |-> events[k].clientX, y |-> events[k].clientY]
                ELSE lp[i]]

\* the listeners a forwarded event of this type can reach
reachable(eventType) ==
    SeqRange(listenersOf(windowListeners, eventType)) \cup
        (IF canvasRef # 0
         THEN SeqRange(listenersOf(canvases[canvasRef].listeners, eventType))
         ELSE {})

\* a wired callback ran: it built r.events, left r.positions in the table and
\* forwarded the events; the listeners in `throwing` throw when called
Deliver(eventType, changed, r) ==
    /\ touchPositions' = r.positions
    /\ built' = r.events
    /\ lastPos' = recordPositions(lastPos, eventType, r.events)
    /\ \E throwing \in SUBSET (IF r.events = <<>> THEN {}
                                ELSE reachable(eventType)) :
           LET f == forwardPointerEvent(canvasRef,
                        IF canvasRef # 0 THEN canvases[canvasRef].listeners
                        ELSE EmptyMap,
                        windowListeners, r.events, throwing)
           IN /\ calls' = f.calls
              /\ outcome' = [op |-> "touch", type |-> eventType,
                             changed |-> SeqIds(changed),
                             before |-> touchPositions,
                             threw |-> f.threw, throwing |-> throwing]

\* the host event reaches no handler
NoDelivery ==
    /\ NoTouchCallback
    /\ Silent
    /\ UNCHANGED <<touchPositions, lastPos>>

\* a finger comes down on the view
HostTouchStart(id, lx, ly) ==
    /\ mounted
    /\ id \notin IdSet(touches)
    /\ LET t == Touch(id, lx, ly)
           allTouches == Append(touches, t)
       IN /\ touches' = allTouches
          /\ responder' = (responder \/ interactiveEvents)
          /\ gesturePrimary' = IF touches = <<>> THEN id ELSE gesturePrimary
          /\ IF interactiveEvents /\ ~responder
             THEN Deliver("pointerdown", <<t>>,
                          handleTouchStart(touchPositions, <<t>>, allTouches,
                              pixelRatio, interactiveEvents, canvasRef))
             ELSE NoDelivery
    /\ lastRet' = 0
    /\ UNCHANGED <<regVars, propVars, interactiveEvents, viewVars, retired,
                   apps, lsnVars>>

\* the finger id moves to (lx, ly). The host reports the move with either
\* only the moved contact or every current contact in the changed list.
HostTouchMove(id, lx, ly, reportAll) ==
    /\ mounted
    /\ id \in IdSet(touches)
    /\ LET allTouches == [i \in DOMAIN touches |->
                  IF touches[i].identifier = id
                  THEN Touch(id, lx, ly) ELSE touches[i]]
           changed == IF reportAll THEN allTouches
                      ELSE SelectSeq(allTouches, LAMBDA t : t.identifier = id)
       IN /\ touches' = allTouches
          /\ responder' = responder
          /\ IF interactiveEvents /\ responder
             THEN Deliver("pointermove", changed,
                          handleTouchMove(touchPositions, changed, allTouches,
                              pixelRatio, interactiveEvents, canvasRef))
             ELSE NoDelivery
    /\ lastRet' = 0
    /\ UNCHANGED <<regVars, propVars, interactiveEvents, viewVars,
                   gesturePrimary, retired, apps, lsnVars>>

\* the finger id lifts at (lx, ly)
HostTouchEnd(id, lx, ly) ==
    /\ mounted
    /\ id \in IdSet(touches)
    /\ LET t == Touch(id, lx, ly)
           allTouches == SelectSeq(touches, LAMBDA u : u.identifier # id)
       IN /\ touches' = allTouches
          /\ responder' = (responder /\ allTouches # <<>>)
          /\ gesturePrimary' = gesturePrimary
          /\ IF interactiveEvents /\ responder /\ allTouches = <<>>
             THEN Deliver("pointerup", <<t>>,
                          handleTouchEnd(touchPositions, <<t>>, allTouches,
                              pixelRatio, interactiveEvents, canvasRef))
             ELSE NoDelivery
    /\ lastRet' = 0
    /\ UNCHANGED <<regVars, propVars, interactiveEvents, viewVars, retired,
                   apps, lsnVars>>

\* the system cancels the gesture: every contact is cancelled
HostTouchCancel ==
    /\ mounted
    /\ touches # <<>>
    /\ touches' = <<>>
    /\ responder' = FALSE
    /\ gesturePrimary' = gesturePrimary
    /\ IF interactiveEvents /\ responder
       THEN Deliver("pointercancel", touches,
                    handleTouchCancel(touchPositions, touches, <<>>,
                        pixelRatio, interactiveEvents, canvasRef))
       ELSE NoDelivery
    /\ lastRet' = 0
    /\ UNCHANGED <<regVars, propVars, interactiveEvents, viewVars, retired,
                   apps, lsnVars>>

\* Another view takes the responder on an event of the contact id (a parent
\* that claims the gesture on a move): onResponderTerminate is called with
\* that event, whose changed list holds the contact id alone, while every
\* contact stays on the screen.
HostResponderTerminate(id) ==
    /\ mounted
    /\ responder
    /\ id \in IdSet(touches)
    /\ LET changed == SelectSeq(touches, LAMBDA t : t.identifier = id)
       IN IF interactiveEvents
          THEN Deliver("pointercancel", changed,
                       handleTouchCancel(touchPositions, changed, touches,
                           pixelRatio, interactiveEvents, canvasRef))
          ELSE NoDelivery
    /\ responder' = FALSE
    /\ lastRet' = 0
    /\ UNCHANGED <<regVars, propVars, interactiveEvents, viewVars, touches,
                   gesturePrimary, retired, apps, lsnVars>>

\* ------------------------------------------------------------------ Next
TouchNext ==
    \/ \E id \in Ids, lx \in XCoords, ly \in YCoords : HostTouchStart(id, lx, ly)
    \/ \E id \in Ids, lx \in XCoords, ly \in YCoords, reportAll \in BOOLEAN :
           HostTouchMove(id, lx, ly, reportAll)
    \/ \E id \in Ids, lx \in XCoords, ly \in YCoords : HostTouchEnd(id, lx, ly)
    \/ HostTouchCancel

ViewNext ==
    \/ \E lw \in Widths, lh \in Heights : HandleLayout(lw, lh)
    \/ \E sw \in 1..MaxW, sh \in 1..MaxH : HandleContextCreate(sw, sh)
    \/ \E p \in initPending : InitResolve(p)
    \/ Unmount

EngineNext ==
    \/ \E w \in Widths \cup {Undefined}, h \in Heights \cup {Undefined} :
           CreateCanvas(w, h)
    \/ \E c \in 1..MaxCanvas, v \in Widths : AssignWidth(c, v)
    \/ \E c \in 1..MaxCanvas, v \in Heights : AssignHeight(c, v)
    \/ \E c \in 1..MaxCanvas : ToDataURL(c)
    \/ \E c \in 1..MaxCanvas : ToBlob(c)
    \/ \E c \in 1..MaxCanvas : TransferControlToOffscreen(c)

ListenerNext ==
    \/ \E scope \in Scopes, c \in 0..MaxCanvas,
          type \in ListenerTypes \cup {"resize"}, l \in Listeners :
           AddEventListener(scope, c, type, l)
    \/ \E scope \in Scopes, c \in 0..MaxCanvas,
          type \in ListenerTypes \cup {"resize"},
          l \in Listeners \cup {NoListener} :
           RemoveEventListener(scope, c, type, l)
    \/ \E scope \in Scopes, c \in 0..MaxCanvas,
          type \in ListenerTypes \cup {"resize"},
          throwing \in SUBSET Listeners :
           DispatchEvent(scope, c, type, throwing)
    \/ \E type \in ListenerTypes, l \in Listeners :
           AddEventListener("document", 0, type, l)
    \/ \E type \in ListenerTypes, l \in Listeners \cup {NoListener} :
           RemoveEventListener("document", 0, type, l)
    \/ \E type \in ListenerTypes : DispatchEvent("document", 0, type, {})
    \/ \E scope \in {"canvas", "window"}, c \in 0..MaxCanvas,
          type \in ListenerTypes, effects \in [Listeners -> Effects] :
           ReentrantDispatch(scope, c, type, effects)
    \/ \E c \in 1..MaxCanvas, type \in ContextIds : GetContext(c, type)

PeerNext ==
    \/ PeerMount
    \/ \E sw \in 1..MaxW, sh \in 1..MaxH : PeerContextCreate(sw, sh)
    \/ PeerUnmount

ElementTags == {"div", "video"}

ElementNext ==
    \/ \E tagName \in ElementTags : CreateElement(tagName)
    \/ \E e \in 1..MaxElement, type \in ListenerTypes, l \in Listeners :
           ElementAddEventListener(e, type, l)
    \/ \E e \in 1..MaxElement, type \in ListenerTypes, l \in Listeners :
           ElementRemoveEventListener(e, type, l)
    \/ \E e \in 1..MaxElement, type \in ListenerTypes :
           ElementDispatchEvent(e, type)

FrameNext == Render \/ \E a \in 1..MaxGL : Frame(a)

Next ==
    \/ TouchNext \/ ViewNext \/ EngineNext \/ ListenerNext \/ PeerNext \/ FrameNext
    \/ ElementNext
    \/ \E id \in Ids : HostResponderTerminate(id)

Spec == Init /\ [][Next]_vars

\* the gesture path of one view: surface-ready, touches, unmount
NextTouch ==
    \/ TouchNext
    \/ \E sw \in 1..MaxW, sh \in 1..MaxH :
           canvasRef = 0 /\ mounted /\ HandleContextCreate(sw, sh)
    \/ Unmount

InitTouch == Init /\ resolution = 0

SpecTouch == InitTouch /\ [][NextTouch]_vars

\* the canvas path: surface-ready, engine initialisation, layout, the
\* engine's use of the canvas, unmount
NextCanvas == ViewNext \/ EngineNext

InitCanvas == Init /\ interactiveEvents = TRUE

SpecCanvas == InitCanvas /\ [][NextCanvas]_vars

\* the registry's own operations: bind, clear, createCanvas
NextRegistry ==
    \/ \E sw \in 1..MaxW, sh \in 1..MaxH : HandleContextCreate(sw, sh)
    \/ Unmount
    \/ \E w \in Widths \cup {Undefined}, h \in Heights \cup {Undefined} :
           CreateCanvas(w, h)

InitRegistry == InitCanvas /\ resolution = 0 /\ pixelRatio = 1

SpecRegistry == InitRegistry /\ [][NextRegistry]_vars

\* the adapters' size: one bind, createCanvas, width/height assignments
NextAdapter ==
    \/ \E sw \in 1..MaxW, sh \in 1..MaxH :
           canvasRef = 0 /\ mounted /\ HandleContextCreate(sw, sh)
    \/ EngineNext

InitAdapter == InitCanvas /\ resolution = 0

SpecAdapter == InitAdapter /\ [][NextAdapter]_vars

\* context requests: binds, placeholders, unmount, getContext
NextContext ==
    \/ \E sw \in 1..MaxW, sh \in 1..MaxH : HandleContextCreate(sw, sh)
    \/ Unmount
    \/ CreateCanvas(Undefined, Undefined)
    \/ \E c \in 1..MaxCanvas, type \in ContextIds : GetContext(c, type)

SpecContext == InitRegistry /\ [][NextContext]_vars

\* the three scopes' listener functions on one bound canvas
NextListeners ==
    \/ \E sw \in 1..MaxW, sh \in 1..MaxH :
           canvasRef = 0 /\ mounted /\ HandleContextCreate(sw, sh)
    \/ \E scope \in Scopes, c \in 0..1, type \in ListenerTypes,
          l \in Listeners :
           AddEventListener(scope, c, type, l)
    \/ \E scope \in Scopes, c \in 0..1, type \in ListenerTypes,
          l \in Listeners \cup {NoListener} :
           RemoveEventListener(scope, c, type, l)
    \/ \E scope \in Scopes, c \in 0..1, type \in ListenerTypes,
          throwing \in SUBSET Listeners :
           DispatchEvent(scope, c, type, throwing)

SpecListeners == InitRegistry /\ [][NextListeners]_vars

\* window and document listeners while one view binds and unmounts and a
\* second view mounts, binds and unmounts
NextPersist ==
    \/ \E sw \in 1..MaxW, sh \in 1..MaxH :
           canvasRef = 0 /\ mounted /\ HandleContextCreate(sw, sh)
    \/ Unmount
    \/ PeerNext
    \/ \E scope \in {"window", "document"}, type \in ListenerTypes,
          l \in Listeners :
           AddEventListener(scope, 0, type, l)
    \/ \E scope \in {"window", "document"}, type \in ListenerTypes,
          l \in Listeners \cup {NoListener} :
           RemoveEventListener(scope, 0, type, l)
    \/ \E scope \in {"window", "document"}, type \in ListenerTypes :
           DispatchEvent(scope, 0, type, {})

SpecPersist == InitRegistry /\ [][NextPersist]_vars

\* elements made by document.createElement and their listeners
SpecElements == InitRegistry /\ [][ElementNext]_vars

\* every adapter, listener and touch operation around one bind and one
\* unmount
NextEffects ==
    \/ \E sw \in 1..MaxW, sh \in 1..MaxH :
           canvasRef = 0 /\ mounted /\ HandleContextCreate(sw, sh)
    \/ Unmount
    \/ \E w \in {MaxW, Undefined}, h \in {MaxH, Undefined} : CreateCanvas(w, h)
    \/ \E c \in 1..MaxCanvas, type \in ContextIds : GetContext(c, type)
    \/ \E scope \in {"canvas", "window"}, c \in 0..1 :
           AddEventListener(scope, c, "pointerdown", 1)
    \/ \E scope \in {"canvas", "window"}, c \in 0..1 :
           RemoveEventListener(scope, c, "pointerdown", 1)
    \/ \E scope \in {"canvas", "window"}, c \in 0..1 :
           DispatchEvent(scope, c, "pointerdown", {})
    \/ \E c \in 1..MaxCanvas : AssignWidth(c, MaxW)
    \/ \E c \in 1..MaxCanvas : AssignHeight(c, MaxH)
    \/ HostTouchStart(1, 0, 0)
    \/ HostTouchEnd(1, 0, 0)

SpecEffects == InitRegistry /\ [][NextEffects]_vars

\* dispatches on a placeholder and on the bound canvas, and touches that
\* fan out to the canvas and the window
NextTargets ==
    \/ \E sw \in 1..MaxW, sh \in 1..MaxH :
           canvasRef = 0 /\ mounted /\ HandleContextCreate(sw, sh)
    \/ CreateCanvas(Undefined, Undefined)
    \/ \E scope \in {"canvas", "window"}, c \in 0..MaxCanvas,
          l \in Listeners :
           AddEventListener(scope, c, "pointerdown", l)
    \/ \E scope \in {"canvas", "window"}, c \in 0..MaxCanvas :
           DispatchEvent(scope, c, "pointerdown", {})
    \/ HostTouchStart(1, 0, 0)
    \/ HostTouchEnd(1, 0, 0)

SpecTargets == InitRegistry /\ [][NextTargets]_vars

\* the unsupported canvas operations on placeholders and bound canvases of
\* every size, with and without listeners
NextExport ==
    \/ \E sw \in 1..MaxW, sh \in 1..MaxH :
           canvasRef = 0 /\ mounted /\ HandleContextCreate(sw, sh)
    \/ CreateCanvas(Undefined, Undefined)
    \/ \E c \in 1..MaxCanvas, l \in Listeners :
           AddEventListener("canvas", c, "pointerdown", l)
    \/ \E c \in 1..MaxCanvas, v \in Widths : AssignWidth(c, v)
    \/ \E c \in 1..MaxCanvas, v \in Heights : AssignHeight(c, v)
    \/ \E c \in 1..MaxCanvas : ToDataURL(c)
    \/ \E c \in 1..MaxCanvas : ToBlob(c)
    \/ \E c \in 1..MaxCanvas : TransferControlToOffscreen(c)

SpecExport == InitRegistry /\ [][NextExport]_vars

\* touches on a view with or without interactive events, before its
\* surface is ready, while it is bound and after it has unmounted, with
\* listeners on the window
NextIdle ==
    \/ \E sw \in 1..MaxW, sh \in 1..MaxH :
           canvasRef = 0 /\ mounted /\ HandleContextCreate(sw, sh)
    \/ Unmount
    \/ \E type \in {"pointerdown", "pointermove"}, l \in Listeners :
           AddEventListener("window", 0, type, l)
    \/ \E id \in Ids : HostTouchStart(id, 0, 0)
    \/ \E id \in Ids, lx \in {0, MaxX}, reportAll \in BOOLEAN :
           HostTouchMove(id, lx, 0, reportAll)
    \/ \E id \in Ids : HostTouchEnd(id, 0, 0)
    \/ HostTouchCancel

InitIdle == InitTouch /\ pixelRatio = 1

SpecIdle == InitIdle /\ [][NextIdle]_vars

\* dispatches whose listeners add and remove listeners as they run
NextReentrant ==
    \/ \E sw \in 1..MaxW, sh \in 1..MaxH :
           canvasRef = 0 /\ mounted /\ HandleContextCreate(sw, sh)
    \/ \E scope \in {"canvas", "window"}, c \in 0..1, l \in Listeners :
           AddEventListener(scope, c, "pointerdown", l)
    \/ \E scope \in {"canvas", "window"}, c \in 0..1,
          effects \in [Listeners -> Effects] :
           ReentrantDispatch(scope, c, "pointerdown", effects)

SpecReentrant == InitRegistry /\ [][NextReentrant]_vars

\* render cycles of one view, from the ticker and from the handle; the
\* start-up continuation runs only while the view is mounted
NextRender ==
    \/ \E sw \in 1..MaxW, sh \in 1..MaxH :
           canvasRef = 0 /\ mounted /\ HandleContextCreate(sw, sh)
    \/ \E p \in initPending : mounted /\ InitResolve(p)
    \/ \E lw \in Widths, lh \in Heights : HandleLayout(lw, lh)
    \/ Unmount
    \/ \E a \in 1..MaxGL : Frame(a)
    \/ Render

SpecRender == InitCanvas /\ [][NextRender]_vars

\* two views: each binds and unmounts, the first one tracks contacts
NextPair ==
    \/ \E sw \in 1..MaxW, sh \in 1..MaxH :
           canvasRef = 0 /\ mounted /\ HandleContextCreate(sw, sh)
    \/ Unmount
    \/ PeerNext
    \/ \E id \in Ids, lx \in XCoords : HostTouchStart(id, lx, 0)
    \/ \E id \in Ids, lx \in XCoords : HostTouchEnd(id, lx, 0)

SpecPair == InitRegistry /\ [][NextPair]_vars

\* size assignments on canvases whose scopes carry 'resize' listeners
NextResize ==
    \/ \E sw \in 1..MaxW, sh \in 1..MaxH :
           canvasRef = 0 /\ mounted /\ HandleContextCreate(sw, sh)
    \/ \E w \in Widths \cup {Undefined}, h \in Heights \cup {Undefined} :
           CreateCanvas(w, h)
    \/ \E scope \in {"canvas", "window"}, c \in 0..MaxCanvas,
          l \in Listeners :
           AddEventListener(scope, c, "resize", l)
    \/ \E c \in 1..MaxCanvas, v \in Widths : AssignWidth(c, v)
    \/ \E c \in 1..MaxCanvas, v \in Heights : AssignHeight(c, v)

SpecResize == InitRegistry /\ [][NextResize]_vars

\* gestures on one bound canvas whose scopes carry listeners; every touch
\* is at the origin
NextFanout ==
    \/ \E sw \in 1..MaxW, sh \in 1..MaxH :
           canvasRef = 0 /\ mounted /\ HandleContextCreate(sw, sh)
    \/ \E scope \in {"canvas", "window"}, c \in 0..1, type \in ListenerTypes,
          l \in Listeners :
           AddEventListener(scope, c, type, l)
    \/ \E id \in Ids : HostTouchStart(id, 0, 0)
    \/ \E id \in Ids, reportAll \in BOOLEAN : HostTouchMove(id, 0, 0, reportAll)
    \/ \E id \in Ids : HostTouchEnd(id, 0, 0)
    \/ HostTouchCancel

SpecFanout == InitRegistry /\ [][NextFanout]_vars

\* teardown: one bind, contacts along the x axis, unmount
NextTeardown ==
    \/ \E sw \in 1..MaxW, sh \in 1..MaxH :
           canvasRef = 0 /\ mounted /\ HandleContextCreate(sw, sh)
    \/ \E id \in Ids, lx \in XCoords : HostTouchStart(id, lx, 0)
    \/ \E id \in Ids, lx \in XCoords : HostTouchEnd(id, lx, 0)
    \/ Unmount

SpecTeardown == InitRegistry /\ [][NextTeardown]_vars

\* engine start-up against unmount, the surface arriving while mounted
NextStartup ==
    \/ \E lw \in Widths, lh \in Heights : HandleLayout(lw, lh)
    \/ \E sw \in 1..MaxW, sh \in 1..MaxH :
           mounted /\ HandleContextCreate(sw, sh)
    \/ \E p \in initPending : InitResolve(p)
    \/ Unmount

SpecStartup == InitCanvas /\ [][NextStartup]_vars

\* render cycles of one view while a second view comes and goes
NextFrame ==
    \/ \E sw \in 1..MaxW, sh \in 1..MaxH :
           canvasRef = 0 /\ mounted /\ HandleContextCreate(sw, sh)
    \/ \E p \in initPending : InitResolve(p)
    \/ Unmount
    \/ PeerMount
    \/ \E sw \in 1..MaxW, sh \in 1..MaxH : PeerContextCreate(sw, sh)
    \/ PeerUnmount
    \/ \E a \in 1..MaxGL : Frame(a)

SpecFrame == InitCanvas /\ [][NextFrame]_vars

\* gestures along the x axis on one bound canvas, each contact at one of the
\* two ends of the axis
NextGesture ==
    \/ \E sw \in 1..MaxW, sh \in 1..MaxH :
           canvasRef = 0 /\ mounted /\ HandleContextCreate(sw, sh)
    \/ \E id \in Ids, lx \in {0, MaxX} : HostTouchStart(id, lx, 0)
    \/ \E id \in Ids, lx \in {0, MaxX}, reportAll \in BOOLEAN :
           HostTouchMove(id, lx, 0, reportAll)
    \/ \E id \in Ids, lx \in {0, MaxX} : HostTouchEnd(id, lx, 0)
    \/ HostTouchCancel

SpecGesture == InitRegistry /\ [][NextGesture]_vars

\* the same gestures, and the responder taken away in mid-gesture
NextTerminate ==
    \/ NextGesture
    \/ \E id \in Ids : HostResponderTerminate(id)

SpecTerminate == InitRegistry /\ [][NextTerminate]_vars

\* the coordinate path: surface-ready, engine initialisation, touches
NextScale ==
    \/ \E sw \in 1..MaxW, sh \in 1..MaxH :
           canvasRef = 0 /\ HandleContextCreate(sw, sh)
    \/ \E p \in initPending : InitResolve(p)
    \/ \E id \in Ids, lx \in XCoords, ly \in YCoords : HostTouchStart(id, lx, ly)
    \/ \E id \in Ids, lx \in XCoords, ly \in YCoords, reportAll \in BOOLEAN :
           HostTouchMove(id, lx, ly, reportAll)
    \/ HostTouchCancel

SpecScale == InitCanvas /\ [][NextScale]_vars

\* ================================================================ claims
BuiltIdx == DOMAIN built

C2_FirstContactZero ==
    [][\A k \in DOMAIN built' :
          LET e == built'[k]
          IN (~IsUp(e.type) /\ e.pointerId \notin DOMAIN touchPositions)
                 => (e.movementX = 0 /\ e.movementY = 0)]_vars

\* a first contact away from the origin was reported with zero movement
C2_Witness ==
    \E k \in BuiltIdx :
        /\ built[k].type = "pointerdown"
        /\ built[k].clientX # 0
        /\ built[k].clientY # 0
        /\ built[k].movementX = 0
        /\ built[k].movementY = 0
        /\ touches # <<>>

\* C3: touchPositions holds an entry for an id only if that id is
\* currently in contact.
C3_EntriesAreContacts ==
    \A id \in DOMAIN touchPositions : id \in IdSet(touches)

\* C4, as stated: a built event is primary exactly when its identifier is
\* that of the first entry of the full current-contact list; the changed
\* list never decides.
C4_PrimaryFromFullListOnly ==
    \A k \in BuiltIdx :
        built[k].isPrimary =
            (Len(touches) > 0 /\ built[k].pointerId = touches[1].identifier)

\* C4, amended: a built event is primary exactly when its identifier is that
\* of the first entry of the full current-contact list if that list is not
\* empty, and that of the first changed touch if it is empty.
C4_PrimaryIsFirstContact ==
    \A k \in BuiltIdx :
        built[k].isPrimary =
            (built[k].pointerId = IF Len(touches) > 0
                                  THEN touches[1].identifier
                                  ELSE built[1].pointerId)

\* a batch whose first changed touch is not the first current contact
C4_Witness ==
    /\ built # <<>>
    /\ Len(touches) > 1
    /\ built[1].pointerId # touches[1].identifier
    /\ ~built[1].isPrimary

\* C5: within one gesture every event of the id that was primary when the
\* gesture began is primary and no event of another id is.
C5_PrimaryStableInGesture ==
    \A k \in BuiltIdx :
        built[k].isPrimary = (built[k].pointerId = gesturePrimary)

\* the view's own lifecycle: surface-ready, engine initialisation, layout,
\* unmount
SpecView == InitCanvas /\ [][ViewNext]_vars

\* C6: the engine maps a pointer event to engine space as
\*   client * (canvas size / bounding-rect size) / renderer resolution;
\* for every touch still in contact the result equals the touch's host
\* logical position.
C6_LogicalUnitIsEngineUnit ==
    (appRef # <<>> /\ canvasRef # 0) =>
        \A k \in BuiltIdx : \A i \in DOMAIN touches :
            touches[i].identifier = built[k].pointerId =>
                LET c == canvases[canvasRef]
                    rect == getBoundingClientRect(c)
                    res == appRef[1].resolution
                IN /\ rect.width # 0
                   /\ rect.height # 0
                   /\ built[k].clientX * c.width
                          = touches[i].locationX * res * rect.width
                   /\ built[k].clientY * c.height
                          = touches[i].locationY * res * rect.height

\* C7: the bounding rect of the active adapter has the pixel size of the
\* bound native drawing surface.
C7_RectIsNativeSurfaceSize ==
    activeCanvas # 0 =>
        LET rect == getBoundingClientRect(canvases[activeCanvas])
        IN /\ rect.width = glSurface[activeGL].drawingBufferWidth
           /\ rect.height = glSurface[activeGL].drawingBufferHeight

\* a / b = 1 in the engine's arithmetic: 0 / 0 is not a number
RatioIsOne(a, b) == b # 0 /\ a = b

RectMirrorsSize(c) ==
    LET rect == getBoundingClientRect(c)
    IN /\ rect.width = c.width
       /\ rect.height = c.height
       /\ rect.left = 0 /\ rect.top = 0 /\ rect.x = 0 /\ rect.y = 0
       /\ rect.right = rect.width
       /\ rect.bottom = rect.height

\* C8, as stated: every adapter's bounding rect mirrors its width/height at
\* the origin, and canvas size over bounding-rect size is exactly 1 on both
\* axes.
C8_RatioAlwaysOne ==
    \A i \in DOMAIN canvases :
        LET c == canvases[i]
            rect == getBoundingClientRect(c)
        IN /\ RectMirrorsSize(c)
           /\ RatioIsOne(c.width, rect.width)
           /\ RatioIsOne(c.height, rect.height)

\* C8, amended: every adapter's bounding rect mirrors its width/height at
\* the origin, and the ratio is exactly 1 on each axis whose size is not 0.
C8_RectMirrorsAdapter ==
    \A i \in DOMAIN canvases :
        LET c == canvases[i]
            rect == getBoundingClientRect(c)
        IN /\ RectMirrorsSize(c)
           /\ c.width # 0 => RatioIsOne(c.width, rect.width)
           /\ c.height # 0 => RatioIsOne(c.height, rect.height)

\* a bound adapter whose width was assigned after the bind, and whose
\* logical (style) height differs from its height
C8_Witness ==
    \E i \in DOMAIN canvases :
        /\ canvases[i].gl # 0
        /\ canvases[i].width # 0
        /\ canvases[i].width # glSurface[canvases[i].gl].drawingBufferWidth
        /\ canvases[i].height # 0
        /\ canvases[i].styleHeight # Px(canvases[i].height)

\* C9: a bind while a binding is active makes a new adapter and the new
\* handle the active ones; the replaced adapter and its handle are never
\* again returned by getActiveCanvas, getActiveGL or createCanvas.
C9_SecondBindRetiresFirst ==
    [][/\ (Len(glSurface') > Len(glSurface) /\ activeCanvas # 0)
            => /\ getActiveCanvas' \notin DOMAIN canvases
               /\ getActiveCanvas' \in DOMAIN canvases'
               /\ getActiveGL' = Len(glSurface')
               /\ getActiveGL' # activeGL
       /\ \A c \in retired' :
              /\ getActiveCanvas' # c
              /\ lastRet' # c
              /\ getActiveGL' # canvases'[c].gl]_vars

\* createCanvas returned the adapter of a second bind
C9_Witness ==
    /\ retired # {}
    /\ activeCanvas # 0
    /\ lastRet = activeCanvas

RegistryConsistent ==
    /\ (activeCanvas = 0) = (activeGL = 0)
    /\ activeCanvas # 0 => canvases[activeCanvas].gl = activeGL

\* C10: adapter and handle are both null or both set, the handle inside the
\* active adapter is the registry's handle, and after clear both are null.
C10_RegistryPair ==
    [][/\ RegistryConsistent'
       /\ (mounted /\ ~mounted') => (activeCanvas' = 0 /\ activeGL' = 0)]_vars

\* clear acted on an active binding
C10_Witness ==
    /\ ~mounted
    /\ canvases # <<>>
    /\ activeCanvas = 0
    /\ activeGL = 0

\* C11: createCanvas returns the active adapter itself while a binding is
\* active and otherwise a new placeholder without a handle, whose
\* getContext answers null for the GPU kinds; the registry is left as it was.
C11_CreateCanvasResult ==
    [][lastRet' # 0 =>
          /\ activeCanvas' = activeCanvas
          /\ activeGL' = activeGL
          /\ IF activeCanvas # 0
             THEN lastRet' = activeCanvas
             ELSE /\ lastRet' \notin DOMAIN canvases
                  /\ lastRet' \in DOMAIN canvases'
                  /\ canvases'[lastRet'].gl = 0
                  /\ \A kind \in {"webgl", "experimental-webgl", "webgl2",
                                   "experimental-webgl2"} :
                         getContext(canvases'[lastRet'], kind).value = 0]_vars

\* createCanvas returned the active adapter, and an earlier call made
\* without a binding had returned a placeholder
C11_Witness ==
    /\ activeCanvas # 0
    /\ lastRet = activeCanvas
    /\ \E c \in DOMAIN canvases : c # activeCanvas /\ canvases[c].gl = 0

\* C12: getContext does not throw; the WebGL kinds answer the bound handle
\* or null, "2d" answers null, the WebGL2 kinds answer what the WebGL kinds
\* answer, and the bound handle is the same after the call.
C12_GetContextAnswers ==
    outcome.op = "getContext" =>
        LET c == canvases[outcome.canvas]
        IN /\ ~outcome.threw
           /\ c.gl = outcome.glBefore
           /\ outcome.type \in {"webgl", "experimental-webgl"}
                 => outcome.value = c.gl
           /\ outcome.type = "2d" => outcome.value = 0
           /\ outcome.type \in {"webgl2", "experimental-webgl2"}
                 => outcome.value = getContext(c, "webgl").value

\* a WebGL2 request on a bound adapter was answered with its handle
C12_Witness ==
    /\ outcome.op = "getContext"
    /\ outcome.type = "webgl2"
    /\ outcome.value # 0
    /\ outcome.value = canvases[outcome.canvas].gl

\* how often the listener l of a scope was called with the event of pointer pid
CountCalls(scope, l, pid) ==
    Cardinality({i \in DOMAIN calls : /\ calls[i].scope = scope
                                      /\ calls[i].listener = l
                                      /\ calls[i].pointerId = pid})

\* C13: in each scope, dispatching a type that has no listener returns
\* false, calls no listener, leaves the event and every registry as they
\* were and raises nothing.
C13_NoListenerDispatch ==
    [][(/\ outcome'.op = "dispatch"
        /\ listenersOf(registryOf(outcome'.scope, outcome'.canvas),
                       outcome'.type) = <<>>)
          => /\ outcome'.ret = FALSE
             /\ calls' = <<>>
             /\ ~outcome'.modified
             /\ ~outcome'.threw
             /\ canvases' = canvases
             /\ windowListeners' = windowListeners
             /\ globalListeners' = globalListeners]_vars

\* a global-scope dispatch found no listener of its type while a listener
\* of another type was registered, and returned false
C13_Witness ==
    /\ outcome.op = "dispatch"
    /\ outcome.scope = "global"
    /\ outcome.ret = FALSE
    /\ listenersOf(windowListeners, outcome.type) = <<>>
    /\ \E t \in DOMAIN windowListeners : windowListeners[t] # <<>>

\* C14: a listener that throws during a forwarded gesture event is caught:
\* nothing leaves the callback, and every listener of the event's type on
\* the canvas and on the window is called exactly once for each event.
C14_ThrowIsContained ==
    (outcome.op = "touch" /\ outcome.throwing # {}) =>
        /\ ~outcome.threw
        /\ \A i \in DOMAIN built :
              /\ \A l \in SeqRange(listenersOf(canvases[canvasRef].listeners,
                                                outcome.type)) :
                     CountCalls("canvas", l, built[i].pointerId) = 1
              /\ \A l \in SeqRange(listenersOf(windowListeners,
                                                outcome.type)) :
                     CountCalls("window", l, built[i].pointerId) = 1

\* the first canvas listener threw; a second canvas listener and a window
\* listener of the type were registered
C14_Witness ==
    /\ outcome.op = "touch"
    /\ built # <<>>
    /\ Len(listenersOf(canvases[canvasRef].listeners, outcome.type)) = 2
    /\ listenersOf(canvases[canvasRef].listeners, outcome.type)[1]
          \in outcome.throwing
    /\ listenersOf(windowListeners, outcome.type) # <<>>

\* C15: when a gesture callback runs with a canvas bound and interactive
\* events enabled, every changed touch yields one event, and each event is
\* delivered once to every canvas listener and once to every window
\* listener of its type, whether or not the other scope has a listener.
C15_FanOut ==
    (outcome.op = "touch" /\ interactiveEvents /\ canvasRef # 0) =>
        LET cls == listenersOf(canvases[canvasRef].listeners, outcome.type)
            wls == listenersOf(windowListeners, outcome.type)
        IN /\ [i \in DOMAIN built |-> built[i].pointerId] = outcome.changed
           /\ \A i \in DOMAIN built :
                 /\ built[i].type = outcome.type
                 /\ \A l \in SeqRange(cls) :
                        CountCalls("canvas", l, built[i].pointerId) = 1
                 /\ \A l \in SeqRange(wls) :
                        CountCalls("window", l, built[i].pointerId) = 1
           /\ Len(calls) = Len(built) * (Len(cls) + Len(wls))

\* a move reported two changed touches; the canvas had a listener of the
\* type and the window had two
C15_Witness ==
    /\ outcome.op = "touch"
    /\ Len(built) = 2
    /\ Len(listenersOf(canvases[canvasRef].listeners, outcome.type)) = 1
    /\ Len(listenersOf(windowListeners, outcome.type)) = 2
    /\ Len(calls) = 6

\* the registry each scope would own if the three were separate
ownRegistry(scope, c) ==
    IF scope = "canvas" THEN canvases[c].listeners
    ELSE IF scope = "window" THEN windowListeners
    ELSE globalListeners

C17_CleanupClearsBoth ==
    [][(mounted /\ ~mounted') =>
          /\ touchPositions' = EmptyMap
          /\ activeCanvas' = 0
          /\ activeGL' = 0]_vars

\* the view was unmounted with a contact down whose position had been
\* stored and with a binding active
C17_Witness ==
    /\ ~mounted
    /\ touches # <<>>
    /\ responder
    /\ lastPos # EmptyMap
    /\ canvases # <<>>
    /\ touchPositions = EmptyMap
    /\ activeCanvas = 0
    /\ activeGL = 0

\* C18: once the view has unmounted, the registry holds no adapter and no
\* handle of it, whatever the order of surface-ready, engine start-up and
\* unmount.
C18_UnmountedViewUnbound ==
    ~mounted => (activeCanvas = 0 /\ activeGL = 0)

\* C19: when the continuation of app.init() runs after the unmount, the
\* view holds no application afterwards, the application is destroyed and
\* has no postrender hook, and onApplicationCreate has not been called.
C19_LateContinuationIsInert ==
    [][\A p \in initPending :
          (~mounted /\ p \notin initPending') =>
              /\ appRef' = <<>>
              /\ apps'[p.app].destroyed
              /\ ~apps'[p.app].postrender
              /\ ~apps'[p.app].notified]_vars

\* C20: in a render cycle the flush comes after the draw commands, and a
\* cycle that runs while the registry is cleared flushes nothing and
\* raises nothing.
C20_FlushAfterDrawUnlessCleared ==
    outcome.op = "frame" =>
        /\ outcome.trace[1].op = "draw"
        /\ (activeCanvas = 0 /\ activeGL = 0) =>
               /\ \A i \in DOMAIN outcome.trace :
                      outcome.trace[i].op # "endFrameEXP"
               /\ ~outcome.threw

\* C21: button, buttons and pressure of a built event follow from its phase
\* alone: start 0 / 1 / 0.5, move -1 / 1 / 0.5, end and cancel 0 / 0 / 0.
C21_ButtonsByPhase ==
    \A i \in DOMAIN built :
        LET e == built[i]
        IN /\ e.type = "pointerdown" =>
                 (e.button = 0 /\ e.buttons = 1 /\ e.pressure = <<1, 2>>)
           /\ e.type = "pointermove" =>
                 (e.button = 0 - 1 /\ e.buttons = 1 /\ e.pressure = <<1, 2>>)
           /\ e.type \in {"pointerup", "pointercancel"} =>
                 (e.button = 0 /\ e.buttons = 0 /\ e.pressure = <<0, 1>>)

\* a move callback built events for two contacts at different places
C21_Witness ==
    /\ Len(built) = 2
    /\ built[1].type = "pointermove"
    /\ built[1].button = 0 - 1
    /\ built[1].pointerId # built[2].pointerId
    /\ built[1].clientX # built[2].clientX

\* C25: an end or cancel event of a pointer that has a stored position
\* reports the release coordinates minus that position, and once the
\* callback's events are built the table has no entry for the pointer.
C25_ReleaseDeltaThenDelete ==
    (outcome.op = "touch" /\ IsUp(outcome.type)) =>
        \A i \in DOMAIN built :
            LET id == built[i].pointerId
            IN /\ id \in DOMAIN outcome.before =>
                     /\ built[i].movementX =
                            built[i].clientX - outcome.before[id].x
                     /\ built[i].movementY =
                            built[i].clientY - outcome.before[id].y
               /\ id \notin DOMAIN touchPositions

\* a pointer was released away from its stored position
C25_Witness ==
    /\ outcome.op = "touch"
    /\ outcome.type = "pointerup"
    /\ built # <<>>
    /\ built[1].pointerId \in DOMAIN outcome.before
    /\ built[1].movementX # 0
    /\ built[1].pointerId \notin DOMAIN touchPositions

\* C26: a callback whose changed list holds one pointer leaves the table
\* entry of every other pointer still in contact as it was: not created, not
\* changed, not deleted.
C26_OtherContactsUntouched ==
    (outcome.op = "touch" /\ Len(outcome.changed) = 1) =>
        \A b \in IdSet(touches) \ {outcome.changed[1]} :
            /\ (b \in DOMAIN touchPositions) = (b \in DOMAIN outcome.before)
            /\ b \in DOMAIN outcome.before =>
                   touchPositions[b] = outcome.before[b]

BatchIndex(pid) ==
    CHOOSE i \in DOMAIN outcome.changed : outcome.changed[i] = pid

\* C27: a callback builds one event per changed touch, in the list's order
\* and with the touch's identifier, and each event reaches the canvas
\* listeners and then the window listeners before the next event is
\* delivered.
C27_BatchOrder ==
    (outcome.op = "touch" /\ interactiveEvents /\ canvasRef # 0) =>
        /\ [i \in DOMAIN built |-> built[i].pointerId] = outcome.changed
        /\ \A j, k \in DOMAIN calls :
              j < k =>
                 /\ BatchIndex(calls[j].pointerId)
                       <= BatchIndex(calls[k].pointerId)
                 /\ calls[j].pointerId = calls[k].pointerId =>
                       ~(calls[j].scope = "window" /\ calls[k].scope = "canvas")

\* two events were built and each went to a canvas listener and then to a
\* window listener
C27_Witness ==
    /\ outcome.op = "touch"
    /\ Len(built) = 2
    /\ Len(calls) = 4
    /\ calls[1].scope = "canvas" /\ calls[1].pointerId = built[1].pointerId
    /\ calls[2].scope = "window" /\ calls[2].pointerId = built[1].pointerId
    /\ calls[3].scope = "canvas" /\ calls[3].pointerId = built[2].pointerId
    /\ calls[4].scope = "window" /\ calls[4].pointerId = built[2].pointerId

\* the fields of a built event that a listener is to find on the event it
\* is called with
CarriedFields ==
    {"pointerId", "isPrimary", "button", "buttons", "pressure", "clientX",
     "clientY", "movementX", "movementY", "globalX", "globalY"}

\* C28: the event a canvas or window listener is called with carries the
\* pointerId, isPrimary, button, buttons, pressure, client coordinates,
\* movement and global coordinates of the event built for that touch.
C28_DeliveredCarriesBuilt ==
    outcome.op = "touch" =>
        \A j \in DOMAIN calls :
            \E i \in DOMAIN built :
                /\ built[i].pointerId = calls[j].pointerId
                /\ \A f \in CarriedFields :
                       /\ f \in DOMAIN calls[j].event
                       /\ calls[j].event[f] = built[i][f]

\* the calls a dispatch of 'resize' on the canvas c owes its own listeners:
\* each one once, in registration order
OwnResizeCalls(c) ==
    LET ls == listenersOf(canvases[c].listeners, "resize")
    IN [i \in DOMAIN ls |->
           [scope |-> "canvas", listener |-> ls[i], target |-> c]]

CallsMade ==
    [i \in DOMAIN calls |->
        [scope |-> calls[i].scope, listener |-> calls[i].listener,
         target |-> calls[i].target]]

\* C22: assigning width or height a different value stores it and sends one
\* resize event to the canvas's own listeners, which see the new dimension,
\* and to no other scope; assigning the value the dimension already has
\* sends no resize event.
C22_ResizeOnlyOnChange ==
    outcome.op = "assign" =>
        LET c == outcome.canvas
            now == IF outcome.dim = "width" THEN canvases[c].width
                   ELSE canvases[c].height
        IN /\ now = outcome.value
           /\ outcome.old # outcome.value =>
                 /\ CallsMade = OwnResizeCalls(c)
                 /\ outcome.observed = outcome.value
           /\ outcome.old = outcome.value => calls = <<>>

\* the listeners the window and document scopes hold for a type
Registered(reg, type) == SeqRange(listenersOf(reg, type))

C23_ElementListenersInvoked ==
    outcome.op = "elementDispatch" =>
        \A l \in Listeners :
            <<outcome.type, l>> \in elements[outcome.element].registered
                <=> \E i \in DOMAIN calls : calls[i].listener = l

\* the operations that are neither bind nor clear
OtherOps == {"touch", "add", "remove", "dispatch", "getContext", "assign"}

\* C30: the active canvas and the active GL handle change only through bind
\* and clear: a createCanvas call, a getContext call, a listener add or
\* remove, a dispatch, a width or height assignment and a touch callback
\* leave getActiveCanvas() and getActiveGL() as they were.
C30_OnlyBindAndClear ==
    [][(outcome'.op \in OtherOps \/ lastRet' # 0) =>
           /\ getActiveCanvas' = getActiveCanvas
           /\ getActiveGL' = getActiveGL]_vars

\* with a canvas bound, createCanvas has been asked for a canvas while a
\* placeholder made before the bind exists beside the active one
C30_Witness ==
    /\ getActiveCanvas # 0
    /\ getActiveGL # 0
    /\ Len(canvases) = 2
    /\ lastRet = getActiveCanvas

\* C31: every listener called by a canvas's dispatchEvent is handed an
\* event whose target and currentTarget are that canvas, and every listener
\* a touch callback reaches, on the canvas or on the window, is handed an
\* event whose target and currentTarget are the view's bound canvas.
C31_TargetIsTheCanvas ==
    \A i \in DOMAIN calls :
        /\ (outcome.op = "dispatch" /\ calls[i].scope = "canvas") =>
              /\ calls[i].event.target = outcome.canvas
              /\ calls[i].event.currentTarget = outcome.canvas
        /\ outcome.op = "touch" =>
              /\ calls[i].event.target = canvasRef
              /\ calls[i].event.currentTarget = canvasRef

\* a touch has reached a window listener while a placeholder exists beside
\* the bound canvas
C31_Witness ==
    /\ outcome.op = "touch"
    /\ Len(canvases) = 2
    /\ canvasRef # 0
    /\ \E i \in DOMAIN calls :
          calls[i].scope = "window" /\ calls[i].event.target = canvasRef

\* C32: on every canvas, transferControlToOffscreen throws the
\* not-supported error and leaves the canvas's size, GL context and
\* listeners as they were; toDataURL returns the empty string; toBlob calls
\* its callback exactly once, with null.
C32_UnsupportedOperations ==
    /\ outcome.op = "transfer" =>
          /\ outcome.threw
          /\ outcome.error =
                "ExpoCanvasElement: transferControlToOffscreen is not supported"
          /\ canvases[outcome.canvas] = outcome.before
    /\ outcome.op = "toDataURL" => outcome.value = ""
    /\ outcome.op = "toBlob" => outcome.callbacks = <<0>>

\* toDataURL has been called on a canvas that holds a GL context and
\* listeners
C32_Witness ==
    /\ outcome.op = "toDataURL"
    /\ canvases[outcome.canvas].gl # 0
    /\ canvases[outcome.canvas].listeners # EmptyMap
    /\ outcome.readPixels
    /\ outcome.value = ""

\* C33: while the view has no bound canvas or its interactive events are
\* off, a touch start, move, end or cancel calls no listener in any scope
\* and leaves the position table as it was.
C33_IdleViewIgnoresTouches ==
    [][((outcome'.op = "touch" \/ touches' # touches)
          /\ (canvasRef = 0 \/ ~interactiveEvents)) =>
           /\ calls' = <<>>
           /\ touchPositions' = touchPositions]_vars

\* a finger is down on an interactive view whose surface is not ready,
\* with a pointerdown listener on the window that was not called
C33_Witness ==
    /\ outcome.op = "touch"
    /\ outcome.type = "pointerdown"
    /\ interactiveEvents
    /\ canvasRef = 0
    /\ touches # <<>>
    /\ listenersOf(windowListeners, "pointerdown") # <<>>
    /\ calls = <<>>
    /\ touchPositions = EmptyMap

\* the listeners called by the last step, in call order
CalledListeners == [i \in DOMAIN calls |-> calls[i].listener]

\* C34: a dispatch on the canvas or the window calls exactly the listeners
\* registered for the type when it starts, each once and in registration
\* order: one that an earlier listener removes during the dispatch is still
\* called, and one added during the dispatch is not called by it but is
\* registered for the next dispatch of the type.
C34_DispatchWalksSnapshot ==
    outcome.op = "redispatch" =>
        /\ CalledListeners = outcome.snapshot
        /\ \A l \in Listeners \ SeqRange(outcome.snapshot) :
              (/\ \E k \in SeqRange(outcome.snapshot) :
                      outcome.effects[k] = [kind |-> "add", listener |-> l]
               /\ \A k \in SeqRange(outcome.snapshot) :
                      outcome.effects[k] # [kind |-> "remove", listener |-> l])
              => l \in SeqRange(listenersOf(
                            registryOf(outcome.scope, outcome.canvas),
                            outcome.type))

\* the first of two listeners removed the second while it ran, and the
\* second was called all the same
C34_Witness ==
    /\ outcome.op = "redispatch"
    /\ Len(outcome.snapshot) = 2
    /\ outcome.effects[outcome.snapshot[1]] =
          [kind |-> "remove", listener |-> outcome.snapshot[2]]
    /\ outcome.effects[outcome.snapshot[2]] = NoEffect
    /\ Len(calls) = 2
    /\ calls[2].listener = outcome.snapshot[2]
    /\ outcome.snapshot[2] \notin
          SeqRange(listenersOf(registryOf(outcome.scope, outcome.canvas),
                               outcome.type))

\* the flushes of the native surface in a trace
Flushes(trace) == SelectSeq(trace, LAMBDA x : x.op = "endFrameEXP")

\* C35: a render cycle, run by the ticker or by the handle's render(),
\* flushes the view's native surface exactly once.
C35_OneFlushPerCycle ==
    ((outcome.op = "frame" \/ outcome.op = "render")
        /\ outcome.trace # <<>>) =>
        /\ Len(Flushes(outcome.trace)) = 1
        /\ Flushes(outcome.trace)[1].gl = glRef

\* C36: a canvas that createCanvas hands out while nothing is bound is new
\* and holds no GL context; no later step, a bind included, gives a canvas
\* without a GL context one or makes it the active canvas; and getContext
\* for a WebGL kind on such a canvas returns null.
C36_PlaceholderStaysUnbound ==
    [][/\ (lastRet' # 0 /\ getActiveCanvas = 0) =>
             /\ lastRet' \notin DOMAIN canvases
             /\ canvases'[lastRet'].gl = 0
       /\ \A c \in DOMAIN canvases :
             canvases[c].gl = 0 =>
                 /\ canvases'[c].gl = 0
                 /\ getActiveCanvas' # c
       /\ (/\ outcome'.op = "getContext"
           /\ canvases[outcome'.canvas].gl = 0
           /\ outcome'.type \in {"webgl", "experimental-webgl", "webgl2",
                                  "experimental-webgl2"}) =>
             outcome'.value = 0]_vars

\* a placeholder was made first, a bind followed, and getContext("webgl")
\* on the placeholder has returned null
C36_Witness ==
    /\ Len(canvases) = 2
    /\ canvases[1].gl = 0
    /\ getActiveCanvas = 2
    /\ canvases[2].gl # 0
    /\ outcome.op = "getContext"
    /\ outcome.canvas = 1
    /\ outcome.type = "webgl"
    /\ outcome.value = 0

\* C37: with two views mounted, the unmount of one leaves the active canvas
\* and GL context alone when they are the other view's binding, and leaves
\* the position table alone when its entries are the other view's contacts
\* (every entry is the first view's: only its touches are followed).
C37_UnmountSparesThePeer ==
    [][/\ (mounted /\ ~mounted' /\ peer.mounted
             /\ activeCanvas # 0 /\ activeCanvas = peer.canvasRef) =>
             /\ getActiveCanvas' = getActiveCanvas
             /\ getActiveGL' = getActiveGL
       /\ (peer.mounted /\ ~peer'.mounted /\ mounted) =>
             /\ (activeCanvas # 0 /\ activeCanvas = canvasRef) =>
                   /\ getActiveCanvas' = getActiveCanvas
                   /\ getActiveGL' = getActiveGL
             /\ touchPositions' = touchPositions]_vars

====
